---- MODULE Spec2Model ----
(***************************************************************************)
(* Staffing state machine of the counsellor event system: the store rows   *)
(* (counsellors, submissions, submission_assignments,                      *)
(* submission_suggestions) and the request handlers of routes/admin.js     *)
(* and routes/counsellor.js that read and write them.                      *)
(*                                                                         *)
(* Dates are calendar days numbered 1..MaxDay (0 stands for a missing      *)
(* date / SQL NULL); the YYYY-MM-DD strings of the code compare in the     *)
(* same order.  Principals: 0 is the admin, k > 0 is the counsellor whose  *)
(* account id is k.  Content columns that no guard reads (organizer, city, *)
(* country, remarks, payment_status, sent_by_counsellor_id) are not        *)
(* stored in the model, except the content that the duplicate score reads. *)
(*                                                                         *)
(* The notification engine (services/notificationEngine.js) and the        *)
(* notification requests (routes/notifications.js) work on notifications,  *)
(* notification_settings, duplicate_dismissals and activity_log.  The      *)
(* clock `now` counts hours: two instants with the same reading are less   *)
(* than one hour apart, two with different readings more than one hour.    *)
(* Of activity_log only the rows that a rule reads are kept                *)
(* (submission_created, submission_deleted).                               *)
(***************************************************************************)
EXTENDS Integers, Sequences, FiniteSets, TLC

\* ---------------------------------------------------------------- bounds
MaxCounsellors == 2
MaxSubmissions == 1
MaxDay == 2

CounsellorIds == 1..MaxCounsellors
SubmissionIds == 1..MaxSubmissions
Days == 1..MaxDay
\* request bodies: start_date and end_date; 0 is a missing date
DatePairs == {<<s, e>> \in Days \X Days : s <= e}
                 \cup {<<MaxDay, 1>>, <<0, 1>>, <<1, 0>>}
Admin == 0

\* A date of a request body is a text, held as its rank in string order: the
\* ranks 1..MaxDay are the ISO texts of the days ("2024-05-01", ...), and
\* JulianDay is the text of the Julian day number of day 1 ("2460431"), which
\* follows every ISO text of this century in string order.
JulianDay == 100
DateTexts == (0..MaxDay) \cup {JulianDay}

\* SQLite date(text): the day the text denotes
sqlDate(text) == IF text = JulianDay THEN 1 ELSE text

\* /^\d{4}-\d{2}-\d{2}$/.test(text)
dateRegex(text) == text \in Days

\* request bodies: a list of counsellor ids (duplicates and unknown ids included)
IdSeqs == {<<>>} \cup {<<a>> : a \in CounsellorIds}
              \cup {<<a, b>> : a \in CounsellorIds, b \in CounsellorIds}
\* suggested_ids of a request body
SuggestedSeqs == {s \in IdSeqs : Len(s) = 2 => s[1] < s[2]}
\* the staffing requests below carry no suggested_ids
NoSuggested == {<<>>}

EventStatuses == {"ONGOING", "COMPLETED", "CANCELLED", "POSTPONED"}
EventStatusInputs == EventStatuses \cup {"undefined", "INVALID"}
\* sent_by_counsellor_id of a request: 0 undefined or null, k a counsellor id
SentByInputs == {0} \cup CounsellorIds

VARIABLES
    counsellors,        \* counsellors table: id -> is_active
    nextCounsellorId,   \* AUTOINCREMENT of counsellors
    submissions,        \* submissions table: id -> row
    nextSubmissionId,   \* AUTOINCREMENT of submissions
    assignments,        \* submission_assignments: set of <<submission_id, counsellor_id>>
    suggestions,        \* submission_suggestions: set of <<submission_id, counsellor_id>>
    today,              \* the current UTC calendar day
    last,               \* the last request: handler, arguments, response, rows before it
    notifications,      \* notifications table: set of rows
    nextNotificationId, \* AUTOINCREMENT of notifications
    settings,           \* notification_settings: setting_key -> setting_value
    dismissals,         \* duplicate_dismissals: set of <<submission_id_1, submission_id_2>>
    activity_log,       \* activity_log: sequence of rows, oldest first
    now,                \* the clock, in hours
    triggered,          \* scheduler callbacks whose timer has fired, oldest first
    running             \* callbacks that have been entered and have not returned

\* the tables of the notification engine
engineVars == <<notifications, nextNotificationId, settings, dismissals, activity_log, now>>

\* the event loop of the server process
loopVars == <<triggered, running>>

vars == <<counsellors, nextCounsellorId, submissions, nextSubmissionId,
          assignments, suggestions, today, last, engineVars, loopVars>>

\* ---------------------------------------------------------------- rows
\* organizer_id, organizer, event_name_id, city and country of a submission;
\* a city is the sequence of its characters
PuneExpo == [organizer_id |-> 1, organizer |-> "Acme | Expo | Fair", event_name_id |-> 1,
             city |-> <<"P", "u", "n", "e">>, country |-> "India"]
GoaSummit == [organizer_id |-> 2, organizer |-> "Zen | Summit | Talk", event_name_id |-> 2,
              city |-> <<"G", "o", "a">>, country |-> "india"]
NoContent == [organizer_id |-> 0, organizer |-> "", event_name_id |-> 0,
              city |-> <<>>, country |-> ""]
Contents == {PuneExpo, GoaSummit}

NoRow == [start_date |-> 0, end_date |-> 0, status |-> "none",
          event_status |-> "none", submitted_by |-> 0, confirmed_at |-> 0,
          content |-> NoContent]

RowOf(subs, id) == IF id \in DOMAIN subs THEN subs[id] ELSE NoRow

AssignedTo(asg, id) == {p[2] : p \in {q \in asg : q[1] = id}}

SeqToSet(s) == {s[i] : i \in 1..Len(s)}

NoLast == [op |-> "init", id |-> 0, res |-> "none", ids |-> <<>>,
           pre |-> NoRow, preAsg |-> {}]

\* the request just served: handler, target id, response, the list of its body
\* (counsellor ids; start and end date for a reschedule), and the target
\* submission's row and assignments before it ran
Record(op, id, res, ids) ==
    [op |-> op, id |-> id, res |-> res, ids |-> ids,
     pre |-> RowOf(submissions, id), preAsg |-> AssignedTo(assignments, id)]

Rejected(op, id, res, ids) ==
    /\ last' = Record(op, id, res, ids)
    /\ UNCHANGED <<counsellors, nextCounsellorId, submissions, nextSubmissionId,
                   assignments, suggestions, today, engineVars, loopVars>>

\* INSERT OR IGNORE INTO notification_settings: the settings as installed
DefaultSettings ==
    [event_reminder_enabled |-> "true", duplicate_detection_enabled |-> "true",
     duplicate_threshold |-> 70, staffing_warning_enabled |-> "true",
     counsellor_overload_threshold |-> 5, anomaly_detection_enabled |-> "true",
     weekly_report_enabled |-> "true"]

\* the notification tables after the schema has been applied
EngineInit ==
    /\ notifications = {}
    /\ nextNotificationId = 1
    /\ settings = DefaultSettings
    /\ dismissals = {}
    /\ activity_log = <<>>
    /\ now = 0
    /\ triggered = <<>>
    /\ running = <<>>

Init ==
    /\ counsellors = << >>
    /\ nextCounsellorId = 1
    /\ submissions = << >>
    /\ nextSubmissionId = 1
    /\ assignments = {}
    /\ suggestions = {}
    /\ today = 1
    /\ last = NoLast
    /\ EngineInit

\* ---------------------------------------------------------------- notification engine
MaxNotifications == 2
MaxClock == 1
\* datetime(created_at) > datetime('now', '-1 hour'), in clock readings
HourWindow == 1
\* JSON.parse(getSetting('event_reminder_days') || '[30, 14, 7, 3, 1]')
ReminderDays == {30, 14, 7, 3, 1}
\* a storage failure during a job: none, at the lookup of the job's enabled
\* setting, at the first statement inside the job's try block, or at every
\* INSERT INTO notifications
Faults == {"none", "enabled", "query", "insert"}

getSetting(db, key) == db.settings[key]

\* faulty variant: every setting reads as enabled
isSettingEnabledAlways(db, key) == TRUE

isSettingEnabled(db, key) == getSetting(db, key) \in {"true", "1"}

\* String.prototype.toLowerCase on the characters and strings of Contents
LowerChar(c) == CASE c = "P" -> "p" [] c = "G" -> "g" [] OTHER -> c
LowerCity(city) == [i \in 1..Len(city) |-> LowerChar(city[i])]
toLowerCase(str) ==
    CASE str = "India" -> "india"
      [] str = "Acme | Expo | Fair" -> "acme | expo | fair"
      [] str = "Zen | Summit | Talk" -> "zen | summit | talk"
      [] OTHER -> str

Min3(a, b, c) == IF a <= b /\ a <= c THEN a ELSE IF b <= c THEN b ELSE c

\* one row of the table dp of levenshteinDistance: cells[j + 1] is dp[i][j],
\* prev[j + 1] is dp[i - 1][j]
RECURSIVE LevCells(_, _, _, _, _)
LevCells(str1, str2, i, prev, cells) ==
    LET j == Len(cells)
    IN IF j > Len(str2) THEN cells
       ELSE LevCells(str1, str2, i, prev,
                Append(cells,
                    IF str1[i] = str2[j] THEN prev[j]
                    ELSE 1 + Min3(prev[j + 1], cells[j], prev[j])))

\* the rows i..m of dp, given row i - 1
RECURSIVE LevRows(_, _, _, _)
LevRows(str1, str2, i, prev) ==
    IF i > Len(str1) THEN prev
    ELSE LevRows(str1, str2, i + 1, LevCells(str1, str2, i, prev, <<i>>))

\* dp[m][n], from the row dp[0][j] = j
levenshteinDistance(str1, str2) ==
    LevRows(str1, str2, 1, [k \in 1..(Len(str2) + 1) |-> k - 1])[Len(str2) + 1]

\* faulty variant: only the first comparison
datesOverlapOneSided(start1, end1, start2, end2) == ~(end1 < start2)

datesOverlap(start1, end1, start2, end2) == ~(end1 < start2 \/ start1 > end2)

\* whole days from today (UTC) to the date
daysUntil(db, dateStr) == dateStr - db.today

\* target_user NULL
NoUser == -1

\* the insert of createNotification: every call of the engine leaves the
\* defaults targetRole = 'admin' and targetUser = null, and no statement writes
\* expires_at (0 is NULL)
NewNotification(db, id, type, priority, title, meta, related) ==
    [id |-> id, type |-> type, priority |-> priority, title |-> title, meta |-> meta,
     related |-> related, status |-> "unread", created_at |-> db.now,
     target_role |-> "admin", target_user |-> NoUser, expires_at |-> 0]

\* faulty variant: no notification counts as already raised
ExistingNone(db, st, type, title, related) == {}

\* faulty variant: a notification that has been read still suppresses
ExistingAnyStatus(db, st, type, title, related) ==
    {x \in st.n : /\ x.type = type /\ x.title = title /\ x.related = related
                  /\ x.created_at + HourWindow > db.now}

\* the unread notifications of the same type, title and submission that were
\* created within the trailing hour
Existing(db, st, type, title, related) ==
    {x \in st.n : /\ x.type = type /\ x.title = title
                  /\ x.status = "unread" /\ x.related = related
                  /\ x.created_at + HourWindow > db.now}

\* createNotification on the store st = [n: rows, next: AUTOINCREMENT];
\* related 0 is NULL; insertFails: the INSERT throws and the error is swallowed
createNotification(db, st, type, priority, title, meta, related, insertFails) ==
    LET kept == IF type = "weekly_report"
                THEN {x \in st.n : x.type # "weekly_report"}
                ELSE st.n
    IN IF type # "weekly_report" /\ Existing(db, st, type, title, related) # {} THEN st
       \* the foreign key of related_submission_id
       ELSE IF insertFails \/ (related # 0 /\ related \notin DOMAIN db.submissions)
       THEN [st EXCEPT !.n = kept]
       ELSE [n |-> kept \cup {NewNotification(db, st.next, type, priority, title, meta, related)},
             next |-> st.next + 1]

\* what createNotification returns: the id of the existing row, the
\* lastInsertRowid, or null (0) when the INSERT threw
ReturnedId(db, st, type, title, related, insertFails) ==
    IF type # "weekly_report" /\ Existing(db, st, type, title, related) # {}
    THEN (CHOOSE x \in Existing(db, st, type, title, related) : TRUE).id
    ELSE IF insertFails \/ (related # 0 /\ related \notin DOMAIN db.submissions)
    THEN 0
    ELSE st.next

\* ascending and descending order of a set of ids
RECURSIVE Ascending(_)
Ascending(S) ==
    IF S = {} THEN <<>>
    ELSE LET m == CHOOSE x \in S : \A y \in S : x <= y
         IN <<m>> \o Ascending(S \ {m})

RECURSIVE Descending(_)
Descending(S) ==
    IF S = {} THEN <<>>
    ELSE LET m == CHOOSE x \in S : \A y \in S : x >= y
         IN <<m>> \o Descending(S \ {m})

\* ---- event reminders
calculateReminderPriority(daysUntilEvent) ==
    IF daysUntilEvent <= 1 THEN "critical"
    ELSE IF daysUntilEvent <= 7 THEN "high"
    ELSE IF daysUntilEvent <= 14 THEN "medium"
    ELSE IF daysUntilEvent <= 30 THEN "low"
    ELSE "null"

isReminderDay(days) ==
    \E d \in ReminderDays : days <= d /\ days > (IF d = 1 THEN 0 ELSE d - 1)

ReminderTitle(days) ==
    "Event in " \o ToString(days) \o (IF days # 1 THEN " days" ELSE " day") \o " needs attention"

\* the loop of checkEventReminders over events[i..]; r = [st, res]
RECURSIVE RemindersFrom(_, _, _, _, _)
RemindersFrom(db, r, events, i, insertFails) ==
    IF i > Len(events) THEN r
    ELSE LET event == db.submissions[events[i]]
             days == daysUntil(db, event.start_date)
             issues == event.status = "pending" \/ AssignedTo(db.assignments, events[i]) = {}
         IN IF ~isReminderDay(days) \/ ~issues \/ calculateReminderPriority(days) = "null"
            THEN RemindersFrom(db, r, events, i + 1, insertFails)
            ELSE RemindersFrom(db, 
                    [st |-> createNotification(db, r.st, "event_reminder",
                                calculateReminderPriority(days), ReminderTitle(days),
                                events[i], events[i], insertFails),
                     res |-> r.res + 1],
                    events, i + 1, insertFails)

\* the body of checkEventReminders inside its try block
checkEventReminders(db, st, insertFails) ==
    LET events == {s \in DOMAIN db.submissions :
                      /\ db.submissions[s].event_status \notin {"COMPLETED", "CANCELLED"}
                      /\ db.submissions[s].start_date >= db.today
                      /\ db.submissions[s].start_date <= db.today + 30}
    IN RemindersFrom(db, [st |-> st, res |-> 0], Ascending(events), 1, insertFails)

\* ---- duplicate detection
\* calculateSimilarity: the score in hundredths and the factors
calculateSimilarity(sub1, sub2) ==
    LET a == sub1.content
        b == sub2.content
        sameOrganizer == a.organizer_id # 0 /\ b.organizer_id # 0
                            /\ a.organizer_id = b.organizer_id
        similarName == ~sameOrganizer /\ a.organizer # "" /\ b.organizer # ""
                          /\ toLowerCase(a.organizer) = toLowerCase(b.organizer)
        overlapping == datesOverlap(sub1.start_date, sub1.end_date,
                                    sub2.start_date, sub2.end_date)
        sameCountry == a.country # "" /\ b.country # ""
                          /\ toLowerCase(a.country) = toLowerCase(b.country)
        city1 == LowerCity(a.city)
        city2 == LowerCity(b.city)
        distance == levenshteinDistance(city1, city2)
        maxLen == IF Len(city1) >= Len(city2) THEN Len(city1) ELSE Len(city2)
        \* 1 - distance / maxLen >= 0.8
        similarCity == Len(city1) > 0 /\ Len(city2) > 0
                          /\ 5 * (maxLen - distance) >= 4 * maxLen
        sameEvent == a.event_name_id # 0 /\ b.event_name_id # 0
                        /\ a.event_name_id = b.event_name_id
    IN [score |-> (IF sameOrganizer THEN 35 ELSE IF similarName THEN 30 ELSE 0)
                    + (IF overlapping THEN 25 ELSE 0)
                    + (IF sameCountry THEN 15 ELSE 0)
                    + (IF similarCity THEN 15 ELSE 0)
                    + (IF sameEvent THEN 10 ELSE 0),
        factors |-> (IF sameOrganizer THEN {"Same organizer"} ELSE {})
                    \cup (IF similarName THEN {"Similar organizer name"} ELSE {})
                    \cup (IF overlapping THEN {"Overlapping dates"} ELSE {})
                    \cup (IF sameCountry THEN {"Same country"} ELSE {})
                    \cup (IF similarCity THEN {"Similar city"} ELSE {})
                    \cup (IF sameEvent THEN {"Same event name"} ELSE {})]

\* faulty variant: the dismissal is looked up in the order (new, existing) only
IsDismissedOneWay(db, id1, id2) == <<id1, id2>> \in db.dismissals

\* SELECT 1 FROM duplicate_dismissals for the pair, in either order
IsDismissed(db, id1, id2) == <<id1, id2>> \in db.dismissals \/ <<id2, id1>> \in db.dismissals

\* the loop of detectDuplicates over candidates[i..]; r = [st, res]
\* the LIMIT of the candidates query: 50 in the source, scaled to the number
\* of submissions a run stores
CandidateLimit == 3

\* faulty variant: the rows are cut from the other end of the order
LimitOldest(rows, n) ==
    IF Len(rows) <= n THEN rows ELSE SubSeq(rows, Len(rows) - n + 1, Len(rows))

\* ORDER BY ... LIMIT n: the first n rows of the ordered result
Limit(rows, n) == IF Len(rows) <= n THEN rows ELSE SubSeq(rows, 1, n)

RECURSIVE DuplicatesFrom(_, _, _, _, _, _)
DuplicatesFrom(db, r, newSubmissionId, candidates, i, insertFails) ==
    IF i > Len(candidates) THEN r
    ELSE LET candidate == candidates[i]
             sim == calculateSimilarity(db.submissions[newSubmissionId], db.submissions[candidate])
         IN IF IsDismissed(db, newSubmissionId, candidate)
               \/ sim.score < getSetting(db, "duplicate_threshold")
            THEN DuplicatesFrom(db, r, newSubmissionId, candidates, i + 1, insertFails)
            ELSE DuplicatesFrom(db, 
                    [st |-> createNotification(db, r.st, "duplicate_detected",
                                IF sim.score >= 90 THEN "high" ELSE "medium",
                                "Possible duplicate event detected",
                                candidate, newSubmissionId, insertFails),
                     res |-> Append(r.res, candidate)],
                    newSubmissionId, candidates, i + 1, insertFails)

\* the candidates query of detectDuplicates, newest first
DuplicateCandidates(db, newSubmissionId) ==
    LET newSub == db.submissions[newSubmissionId]
        candidates == {s \in DOMAIN db.submissions :
            /\ s # newSubmissionId
            /\ db.submissions[s].event_status # "CANCELLED"
            /\ \/ db.submissions[s].content.country = newSub.content.country
               \/ /\ db.submissions[s].start_date <= newSub.end_date
                  /\ db.submissions[s].end_date >= newSub.start_date}
    IN Limit(Descending(candidates), CandidateLimit)

\* the body of detectDuplicates inside its try block
detectDuplicates(db, st, newSubmissionId, insertFails) ==
    IF newSubmissionId \notin DOMAIN db.submissions THEN [st |-> st, res |-> <<>>]
    ELSE DuplicatesFrom(db, [st |-> st, res |-> <<>>], newSubmissionId,
                        DuplicateCandidates(db, newSubmissionId), 1, insertFails)

\* detectDuplicates when the dismissal lookup of the second candidate throws:
\* the first candidate has been handled, the catch block returns []
detectDuplicatesUntilLookup(db, st, newSubmissionId) ==
    IF newSubmissionId \notin DOMAIN db.submissions
    THEN [st |-> st, res |-> <<>>]
    ELSE IF Len(DuplicateCandidates(db, newSubmissionId)) < 2
    THEN detectDuplicates(db, st, newSubmissionId, FALSE)
    ELSE [st |-> DuplicatesFrom(db, [st |-> st, res |-> <<>>], newSubmissionId,
                     SubSeq(DuplicateCandidates(db, newSubmissionId), 1, 1), 1, FALSE).st,
          res |-> <<>>]

\* ---- staffing warnings
\* COUNT(DISTINCT sa.submission_id) of counsellor c in the overload query
EventCount(db, c) ==
    Cardinality({s \in DOMAIN db.submissions :
        /\ <<s, c>> \in db.assignments
        /\ db.submissions[s].status = "confirmed"
        /\ db.submissions[s].event_status \notin {"COMPLETED", "CANCELLED"}
        /\ db.submissions[s].start_date >= db.today
        /\ db.submissions[s].start_date <= db.today + 30})

\* the loop of checkCounsellorOverload over overloaded[i..]
RECURSIVE OverloadFrom(_, _, _, _, _)
OverloadFrom(db, st, overloaded, i, insertFails) ==
    IF i > Len(overloaded) THEN st
    ELSE OverloadFrom(db, 
            createNotification(db, st, "staffing_warning",
                IF EventCount(db, overloaded[i]) >= getSetting(db, "counsellor_overload_threshold") + 2
                THEN "high" ELSE "medium",
                "Counsellor workload alert", overloaded[i], 0, insertFails),
            overloaded, i + 1, insertFails)

\* the body of checkCounsellorOverload inside its try block
checkCounsellorOverload(db, st, insertFails) ==
    LET overloaded == {c \in DOMAIN db.counsellors :
                          /\ db.counsellors[c]
                          /\ EventCount(db, c) >= 1
                          /\ EventCount(db, c) >= getSetting(db, "counsellor_overload_threshold")}
    IN [st |-> OverloadFrom(db, st, Ascending(overloaded), 1, insertFails),
        res |-> Cardinality(overloaded)]

\* ---- weekly report
\* the body of generateWeeklyReport inside its try block
generateWeeklyReport(db, st, insertFails) ==
    LET unstaffed == Cardinality({s \in DOMAIN db.submissions :
            /\ db.submissions[s].status \in {"pending", "confirmed"}
            /\ db.submissions[s].event_status \notin {"COMPLETED", "CANCELLED"}
            /\ db.submissions[s].start_date >= db.today
            /\ db.submissions[s].start_date <= db.today + 30
            /\ AssignedTo(db.assignments, s) = {}})
    IN [st |-> createNotification(db, st, "weekly_report",
                   IF unstaffed > 5 THEN "high" ELSE "medium",
                   "Weekly Intelligence Report", unstaffed, 0, insertFails),
        res |-> TRUE]

\* ---- anomaly detection
\* the rows of activity_log with the action, in the trailing window
LogRows(db, action, sinceExclusive) ==
    {i \in 1..Len(db.activity_log) :
        db.activity_log[i].action = action /\ db.activity_log[i].created_at > sinceExclusive}

\* rule 1: the users with 5 or more deletions in the last 10 minutes
BulkDeleters(db) ==
    {u \in {db.activity_log[i].username : i \in LogRows(db, "submission_deleted", db.now - 1)} :
        Cardinality({i \in LogRows(db, "submission_deleted", db.now - 1) :
                        db.activity_log[i].username = u}) >= 5}

\* rule 2: the creations of the last hour are 5 or more and at least 3 times
\* the average over the hours of the last 7 days that have any
VolumeSpike(db) ==
    LET all == LogRows(db, "submission_created", db.now - 168)
        hours == {db.activity_log[i].created_at : i \in all}
        current == Cardinality(LogRows(db, "submission_created", db.now - HourWindow))
    IN /\ current >= 5
       /\ hours # {}
       /\ current * Cardinality(hours) >= 3 * Cardinality(all)

\* rule 3: the submissions of the last 24 hours whose end date is before the start date
DateErrors(db) ==
    {s \in DOMAIN db.submissions :
        sqlDate(db.submissions[s].end_date) < sqlDate(db.submissions[s].start_date)}

RECURSIVE AnomaliesFrom(_, _, _, _, _, _, _)
AnomaliesFrom(db, st, priority, title, keys, i, insertFails) ==
    IF i > Len(keys) THEN st
    ELSE AnomaliesFrom(db, 
            createNotification(db, st, "anomaly", priority, title, keys[i],
                               IF title = "Data entry error detected" THEN keys[i] ELSE 0,
                               insertFails),
            priority, title, keys, i + 1, insertFails)

\* rule 1 of detectAnomalies: the query and its loop
BulkDeletionRule(db, st, insertFails) ==
    AnomaliesFrom(db, st, "critical", "Unusual activity detected",
                  Ascending(BulkDeleters(db)), 1, insertFails)

\* rule 2 of detectAnomalies: the two queries and the notification
VolumeRule(db, st, insertFails) ==
    IF VolumeSpike(db)
    THEN createNotification(db, st, "anomaly", "medium", "Unusual submission volume",
                            0, 0, insertFails)
    ELSE st

\* detectAnomalies when a query of rule 2 or the query of rule 3 throws: the
\* rules before it have run, the catch block returns 0
detectAnomaliesUntil(db, st, rule) ==
    [st |-> IF rule = "rule2" THEN BulkDeletionRule(db, st, FALSE)
            ELSE VolumeRule(db, BulkDeletionRule(db, st, FALSE), FALSE),
     res |-> 0]

\* the body of detectAnomalies inside its try block
detectAnomalies(db, st, insertFails) ==
    LET st1 == BulkDeletionRule(db, st, insertFails)
        st2 == VolumeRule(db, st1, insertFails)
        st3 == AnomaliesFrom(db, st2, "high", "Data entry error detected",
                             Ascending(DateErrors(db)), 1, insertFails)
    IN [st |-> st3,
        res |-> Cardinality(BulkDeleters(db)) + (IF VolumeSpike(db) THEN 1 ELSE 0)
                    + Cardinality(DateErrors(db))]

\* logActivity: the INSERT, or nothing when it throws (the error is swallowed)
logActivity(log, action, username, fails) ==
    IF fails THEN log
    ELSE Append(log, [action |-> action, username |-> username, created_at |-> now])

\* ---- the job functions as their callers see them
Jobs == {"reminders", "overload", "anomalies", "weekly-report", "duplicates"}

EnabledKey(job) ==
    CASE job = "reminders" -> "event_reminder_enabled"
      [] job = "overload" -> "staffing_warning_enabled"
      [] job = "anomalies" -> "anomaly_detection_enabled"
      [] job = "weekly-report" -> "weekly_report_enabled"
      [] job = "duplicates" -> "duplicate_detection_enabled"

\* the result of a job that is switched off or has failed
Neutral(job) ==
    CASE job = "weekly-report" -> FALSE
      [] job = "duplicates" -> <<>>
      [] OTHER -> 0

JobBody(db, job, st, arg, insertFails) ==
    CASE job = "reminders" -> checkEventReminders(db, st, insertFails)
      [] job = "overload" -> checkCounsellorOverload(db, st, insertFails)
      [] job = "anomalies" -> detectAnomalies(db, st, insertFails)
      [] job = "weekly-report" -> generateWeeklyReport(db, st, insertFails)
      [] job = "duplicates" -> detectDuplicates(db, st, arg, insertFails)

\* a storage failure at a later read of a job: at a query of rule 2 or at the
\* query of rule 3 of detectAnomalies, at the dismissal lookup of the second
\* candidate of detectDuplicates
LaterReads == {"rule2", "rule3", "lookup2"}

\* the job up to the read that throws; the catch block of the job returns the
\* neutral result
JobBodyUntil(db, job, st, arg, fault) ==
    CASE job = "anomalies" /\ fault \in {"rule2", "rule3"} -> detectAnomaliesUntil(db, st, fault)
      [] job = "duplicates" /\ fault = "lookup2" -> detectDuplicatesUntilLookup(db, st, arg)
      [] OTHER -> JobBody(db, job, st, arg, FALSE)

\* generateWeeklyReport(force): only the weekly report has a force flag
SkipsEnabledCheck(job, force) == job = "weekly-report" /\ force

\* a call of a job function: [st, res, threw]; arg is the submission id of a
\* duplicate check, force the flag of the weekly report
CallJob(db, job, st, arg, force, fault) ==
    IF ~SkipsEnabledCheck(job, force) /\ fault = "enabled"
    THEN [st |-> st, res |-> "throw", threw |-> TRUE]
    ELSE IF ~SkipsEnabledCheck(job, force) /\ ~isSettingEnabled(db, EnabledKey(job))
    THEN [st |-> st, res |-> Neutral(job), threw |-> FALSE]
    ELSE IF fault = "query"
    THEN [st |-> st, res |-> Neutral(job), threw |-> FALSE]
    ELSE IF fault \in LaterReads
    THEN LET r == JobBodyUntil(db, job, st, arg, fault)
         IN [st |-> r.st, res |-> r.res, threw |-> FALSE]
    ELSE LET r == JobBody(db, job, st, arg, fault = "insert")
         IN [st |-> r.st, res |-> r.res, threw |-> FALSE]

\* the store that the jobs work on
Store == [n |-> notifications, next |-> nextNotificationId]

\* the tables that the jobs read
Db ==
    [counsellors |-> counsellors, submissions |-> submissions,
     assignments |-> assignments, settings |-> settings, dismissals |-> dismissals,
     activity_log |-> activity_log, now |-> now, today |-> today]


\* ---------------------------------------------------------------- counsellor accounts
\* POST /counsellors
CreateCounsellor(is_active) ==
    /\ nextCounsellorId <= MaxCounsellors
    /\ counsellors' = (nextCounsellorId :> is_active) @@ counsellors
    /\ nextCounsellorId' = nextCounsellorId + 1
    /\ last' = Record("createCounsellor", 0, "ok", <<>>)
    /\ UNCHANGED <<submissions, nextSubmissionId, assignments, suggestions, today, engineVars, loopVars>>

\* faulty variant: deactivation removes the counsellor's staffing rows
UpdateCounsellorCascade(id, is_active) ==
    IF id \notin DOMAIN counsellors
    THEN Rejected("updateCounsellor", 0, "404", <<>>)
    ELSE /\ counsellors' = [counsellors EXCEPT ![id] = is_active]
         /\ assignments' = IF is_active THEN assignments
                            ELSE {p \in assignments : p[2] # id}
         /\ suggestions' = IF is_active THEN suggestions
                            ELSE {p \in suggestions : p[2] # id}
         /\ last' = Record("updateCounsellor", 0, "ok", <<>>)
         /\ UNCHANGED <<nextCounsellorId, submissions, nextSubmissionId,
                        today, engineVars, loopVars>>

\* PUT /counsellors/:id with a numeric is_active
UpdateCounsellor(id, is_active) ==
    IF id \notin DOMAIN counsellors
    THEN Rejected("updateCounsellor", 0, "404", <<>>)
    ELSE /\ counsellors' = [counsellors EXCEPT ![id] = is_active]
         /\ last' = Record("updateCounsellor", 0, "ok", <<>>)
         /\ UNCHANGED <<nextCounsellorId, submissions, nextSubmissionId,
                        assignments, suggestions, today, engineVars, loopVars>>

\* DELETE /counsellors/:id
DeleteCounsellor(id) ==
    IF id \notin DOMAIN counsellors
    THEN Rejected("deleteCounsellor", 0, "404", <<>>)
    ELSE /\ assignments' = {p \in assignments : p[2] # id}
         /\ suggestions' = {p \in suggestions : p[2] # id}
         /\ counsellors' = [c \in DOMAIN counsellors \ {id} |-> counsellors[c]]
         /\ last' = Record("deleteCounsellor", 0, "ok", <<>>)
         /\ UNCHANGED <<nextCounsellorId, submissions, nextSubmissionId, today, engineVars, loopVars>>

\* ---------------------------------------------------------------- suggestions
\* INSERT OR IGNORE of the ids in order; the first id that is no counsellor
\* (foreign key) throws inside the handler's try, the rows before it stay
RECURSIVE InsertSuggestions(_, _, _, _)
InsertSuggestions(sugg, sid, ids, cs) ==
    IF ids = <<>> THEN sugg
    ELSE IF Head(ids) \notin DOMAIN cs THEN sugg
    ELSE InsertSuggestions(sugg \cup {<<sid, Head(ids)>>}, sid, Tail(ids), cs)

ReplaceSuggestions(sugg, sid, ids, cs) ==
    InsertSuggestions({p \in sugg : p[1] # sid}, sid, ids, cs)

\* ---------------------------------------------------------------- counsellor requests
\* a storage failure during a request: none, at the INSERT of logActivity, or
\* inside the detection job that the request calls
HandlerFaults == Faults \cup {"log"}

\* the response of a request that has called a detection job
RecordFault(op, id, res, ids, fault) == Record(op, id, res, ids) @@ [fault |-> fault]

\* faulty variant: what the job throws fails the request
HookResponsePropagates(r) == IF r.threw THEN "500" ELSE "ok"

\* try { job } catch (e) { } followed by res.json({ ok: true })
HookResponse(r) == "ok"

\* POST /submissions
CreateSubmission(user, start_date, end_date, content, suggested_ids, fault) ==
    IF start_date = 0 \/ end_date = 0
    THEN fault = "none" /\ Rejected("create", 0, "400", <<>>)
    ELSE IF start_date > end_date
    THEN fault = "none" /\ Rejected("create", 0, "400", <<>>)
    ELSE LET id == nextSubmissionId
             row == [start_date |-> start_date, end_date |-> end_date,
                     status |-> "pending", event_status |-> "ONGOING",
                     submitted_by |-> user, confirmed_at |-> 0, content |-> content]
         IN /\ submissions' = (id :> row) @@ submissions
            /\ nextSubmissionId' = id + 1
            /\ suggestions' = ReplaceSuggestions(suggestions, id, suggested_ids, counsellors)
            /\ activity_log' = logActivity(activity_log, "submission_created", user,
                                           fault = "log")
            /\ UNCHANGED <<counsellors, nextCounsellorId, assignments, today,
                           settings, dismissals, now, loopVars>>
            \* detectDuplicates(submissionId) on the store after the INSERT; what
            \* it throws is caught by the handler
            /\ \E r \in {CallJob([Db EXCEPT !.submissions = (id :> row) @@ submissions],
                                   "duplicates", Store, id, FALSE, fault)} :
                  /\ r.st.next <= MaxNotifications + 1
                  /\ notifications' = r.st.n
                  /\ nextNotificationId' = r.st.next
                  /\ last' = RecordFault("create", id, HookResponse(r), <<>>, fault)
                                @@ [duplicates |-> IF r.threw THEN <<>> ELSE r.res]

\* faulty variant: the start date itself is still editable
EditBlockedAfterStart(row, day) == row.status = "confirmed" /\ day > row.start_date

\* the date rule of the edit: a confirmed event is frozen from its start date on
EditBlocked(row, day) == row.status = "confirmed" /\ day >= row.start_date

\* the UPDATE of the edit: dates, organizer, city and country are written,
\* organizer_id and event_name_id stay, the status becomes pending
EditedRow(row, start_date, end_date, content) ==
    [row EXCEPT !.start_date = start_date,
                !.end_date = end_date,
                !.content = [content EXCEPT !.organizer_id = row.content.organizer_id,
                                            !.event_name_id = row.content.event_name_id],
                !.status = "pending"]

\* faulty variant: the edit also withdraws the staffing of the submission
EditSubmissionUnstaffs(user, id, start_date, end_date, content, suggested_ids) ==
    IF start_date = 0 \/ end_date = 0
    THEN Rejected("edit", id, "400", <<>>)
    ELSE IF start_date > end_date
    THEN Rejected("edit", id, "400", <<>>)
    ELSE IF id \notin DOMAIN submissions
    THEN Rejected("edit", id, "404", <<>>)
    ELSE IF submissions[id].submitted_by # user
    THEN Rejected("edit", id, "403", <<>>)
    ELSE IF submissions[id].status = "confirmed" /\ today >= submissions[id].start_date
    THEN Rejected("edit", id, "started", <<>>)
    ELSE /\ submissions' = [submissions EXCEPT ![id] = EditedRow(@, start_date, end_date, content)]
         /\ suggestions' = ReplaceSuggestions(suggestions, id, suggested_ids, counsellors)
         /\ assignments' = {p \in assignments : p[1] # id}
         /\ last' = Record("edit", id, "ok", <<>>)
         /\ UNCHANGED <<counsellors, nextCounsellorId, nextSubmissionId,
                        today, engineVars, loopVars>>

\* PUT /submissions/:id
EditSubmission(user, id, start_date, end_date, content, suggested_ids) ==
    IF start_date = 0 \/ end_date = 0
    THEN Rejected("edit", id, "400", <<>>)
    ELSE IF start_date > end_date
    THEN Rejected("edit", id, "400", <<>>)
    ELSE IF id \notin DOMAIN submissions
    THEN Rejected("edit", id, "404", <<>>)
    ELSE IF submissions[id].submitted_by # user
    THEN Rejected("edit", id, "403", <<>>)
    ELSE IF EditBlocked(submissions[id], today)
    THEN Rejected("edit", id, "started", <<>>)
    ELSE /\ submissions' = [submissions EXCEPT ![id] = EditedRow(@, start_date, end_date, content)]
         /\ suggestions' = ReplaceSuggestions(suggestions, id, suggested_ids, counsellors)
         /\ last' = Record("edit", id, "ok", <<>>)
         /\ UNCHANGED <<counsellors, nextCounsellorId, nextSubmissionId,
                        assignments, today, engineVars, loopVars>>

\* PUT /submissions/:id/remarks: writes remarks and updated_at only
UpdateRemarks(user, id) ==
    IF id \notin DOMAIN submissions
    THEN Rejected("remarks", id, "404", <<>>)
    ELSE IF submissions[id].submitted_by # user
    THEN Rejected("remarks", id, "403", <<>>)
    ELSE /\ last' = Record("remarks", id, "ok", <<>>)
         /\ UNCHANGED <<counsellors, nextCounsellorId, submissions, nextSubmissionId,
                        assignments, suggestions, today, engineVars, loopVars>>

\* DELETE /submissions/:id (any logged-in principal)
DeleteSubmission(user, id) ==
    IF id \notin DOMAIN submissions
    THEN Rejected("delete", id, "404", <<>>)
    ELSE IF user # Admin /\ submissions[id].submitted_by # user
    THEN Rejected("delete", id, "403", <<>>)
    ELSE /\ assignments' = {p \in assignments : p[1] # id}
         /\ suggestions' = {p \in suggestions : p[1] # id}
         /\ submissions' = [s \in DOMAIN submissions \ {id} |-> submissions[s]]
         \* notifications.related_submission_id ... ON DELETE CASCADE
         /\ notifications' = {n \in notifications : n.related # id}
         /\ activity_log' = logActivity(activity_log, "submission_deleted", user, FALSE)
         /\ last' = Record("delete", id, "ok", <<>>)
         /\ UNCHANGED <<counsellors, nextCounsellorId, nextSubmissionId, today,
                        nextNotificationId, settings, dismissals, now, loopVars>>

\* ---------------------------------------------------------------- admin requests
\* the rows of the SELECT ... WHERE is_active = 1 AND id IN (counsellor_ids)
SelectedCounsellors(ids, cs) ==
    {c \in SeqToSet(ids) : c \in DOMAIN cs /\ cs[c]}

\* faulty variant: the ids that resolve are applied, the others dropped
SelectionNonEmpty(ids, cs) == SelectedCounsellors(ids, cs) # {}

\* faulty variant: a counsellor with a confirmed assignment cannot be selected
SelectionCompleteAndIdle(ids, cs) ==
    /\ Cardinality(SelectedCounsellors(ids, cs)) = Len(ids)
    /\ \A p \in assignments :
          p[2] \in SelectedCounsellors(ids, cs) => submissions[p[1]].status # "confirmed"

\* selected.length !== counsellor_ids.length is a validation failure
SelectionComplete(ids, cs) ==
    Cardinality(SelectedCounsellors(ids, cs)) = Len(ids)

\* faulty variant: only a cancelled event is closed to staffing
FinalizeBlockedCancelled(row) == row.event_status = "CANCELLED"

\* staffing of a completed or cancelled event cannot change
FinalizeBlocked(row) == row.event_status \in {"COMPLETED", "CANCELLED"}

\* faulty variant: the INSERTs without the DELETE before them
MergeAssignments(asg, id, selected) == asg \cup {<<id, c>> : c \in selected}

\* DELETE FROM submission_assignments WHERE submission_id = id, then one INSERT per selected row
ReplaceAssignments(asg, id, selected) ==
    {p \in asg : p[1] # id} \cup {<<id, c>> : c \in selected}

\* PUT /submissions/:id/finalize; crash: the process stops inside the
\* transaction ("in_tx") or right after its commit ("after_commit"); fault: a
\* storage failure in logActivity or in the overload check after the commit
Finalize(id, counsellor_ids, crash, fault) ==
    IF counsellor_ids = <<>>
    THEN crash = "none" /\ fault = "none" /\ Rejected("finalize", id, "400", <<>>)
    ELSE IF id \notin DOMAIN submissions
    THEN crash = "none" /\ fault = "none" /\ Rejected("finalize", id, "404", <<>>)
    ELSE IF FinalizeBlocked(submissions[id])
    THEN crash = "none" /\ fault = "none" /\ Rejected("finalize", id, "blocked", <<>>)
    ELSE IF ~SelectionComplete(counsellor_ids, counsellors)
    THEN crash = "none" /\ fault = "none"
         /\ Rejected("finalize", id, "inactive", counsellor_ids)
    ELSE LET selected == SelectedCounsellors(counsellor_ids, counsellors)
             row == [submissions[id] EXCEPT !.status = "confirmed",
                                            !.confirmed_at = today]
             asg == ReplaceAssignments(assignments, id, selected)
         IN \* db.transaction: a stop inside it rolls every statement back
            /\ crash # "none" => fault = "none"
            /\ assignments' = IF crash = "in_tx" THEN assignments ELSE asg
            /\ submissions' = IF crash = "in_tx" THEN submissions
                              ELSE [submissions EXCEPT ![id] = row]
            /\ UNCHANGED <<counsellors, nextCounsellorId, nextSubmissionId,
                           suggestions, today, settings, dismissals, activity_log, now, loopVars>>
            \* checkCounsellorOverload() on the store after the commit; what it
            \* throws is caught by the handler
            /\ \E r \in {IF crash # "none" THEN [st |-> Store, threw |-> FALSE]
                          ELSE CallJob([Db EXCEPT !.submissions = [submissions EXCEPT ![id] = row],
                                                  !.assignments = asg],
                                       "overload", Store, 0, FALSE, fault)} :
                  /\ r.st.next <= MaxNotifications + 1
                  /\ notifications' = r.st.n
                  /\ nextNotificationId' = r.st.next
                  /\ last' = RecordFault("finalize", id,
                                         IF crash = "none" THEN HookResponse(r) ELSE "crash",
                                         counsellor_ids, fault)

\* faulty variant: a postponed event keeps its status and staffing
ClearsOnlyCancelled(newStatus) == newStatus = "CANCELLED"

\* an event that is cancelled or postponed loses its staffing
ClearsStaffing(newStatus) == newStatus \in {"CANCELLED", "POSTPONED"}

\* faulty variant: the DELETE is missing
KeepAssignments(asg, id) == asg

\* DELETE FROM submission_assignments WHERE submission_id = id
DeleteAssignments(asg, id) == {p \in asg : p[1] # id}

\* PUT /submissions/:id/meta; crash: the process stops between the DELETE
\* of the assignments and the UPDATE of the submission
UpdateMeta(id, sent_by, payment_status, event_status, crash) ==
    IF id \notin DOMAIN submissions
    THEN ~crash /\ Rejected("meta", id, "404", <<>>)
    ELSE IF payment_status = "INVALID"
    THEN ~crash /\ Rejected("meta", id, "400", <<>>)
    ELSE IF event_status = "INVALID"
    THEN ~crash /\ Rejected("meta", id, "400", <<>>)
    ELSE LET old == submissions[id]
             \* the stored sent_by_counsellor_id is NULL or an existing counsellor
             newSent == sent_by
             newStatus == IF event_status = "undefined" THEN old.event_status
                          ELSE event_status
             clears == ClearsStaffing(newStatus)
             asg == IF clears THEN DeleteAssignments(assignments, id) ELSE assignments
             row == [old EXCEPT !.event_status = newStatus,
                                !.status = IF clears THEN "not_applicable" ELSE @]
             \* the UPDATE violates the foreign key of sent_by_counsellor_id
             fkFails == newSent # 0 /\ newSent \notin DOMAIN counsellors
         IN /\ crash => clears
            /\ assignments' = asg
            /\ submissions' = IF crash \/ fkFails THEN submissions
                              ELSE [submissions EXCEPT ![id] = row]
            /\ last' = Record("meta", id,
                              IF crash THEN "crash" ELSE IF fkFails THEN "500" ELSE "ok",
                              <<>>)
            /\ UNCHANGED <<counsellors, nextCounsellorId, nextSubmissionId,
                           suggestions, today, engineVars, loopVars>>

\* faulty variant: the UPDATE writes the dates only
RescheduledDatesOnly(row, start_date, end_date) ==
    [row EXCEPT !.start_date = start_date, !.end_date = end_date]

\* UPDATE submissions SET start_date, end_date, event_status = 'ONGOING', status = 'pending'
Rescheduled(row, start_date, end_date) ==
    [row EXCEPT !.start_date = start_date, !.end_date = end_date,
                !.event_status = "ONGOING", !.status = "pending"]

\* PUT /submissions/:id/reschedule; the response records the dates of the body
Reschedule(id, start_date, end_date) ==
    IF start_date = 0 \/ end_date = 0
    THEN Rejected("reschedule", id, "400", <<start_date, end_date>>)
    ELSE IF ~dateRegex(start_date) \/ ~dateRegex(end_date)
    THEN Rejected("reschedule", id, "400", <<start_date, end_date>>)
    ELSE IF start_date > end_date
    THEN Rejected("reschedule", id, "400", <<start_date, end_date>>)
    ELSE IF id \notin DOMAIN submissions
    THEN Rejected("reschedule", id, "404", <<start_date, end_date>>)
    ELSE /\ submissions' = [submissions EXCEPT
                                ![id] = Rescheduled(submissions[id], start_date, end_date)]
         /\ last' = Record("reschedule", id, "ok", <<start_date, end_date>>)
         /\ UNCHANGED <<counsellors, nextCounsellorId, nextSubmissionId,
                        assignments, suggestions, today, engineVars, loopVars>>

\* midnight UTC: new Date().toISOString() yields the next calendar day
Tick ==
    /\ today < MaxDay
    /\ today' = today + 1
    /\ last' = Record("tick", 0, "none", <<>>)
    /\ UNCHANGED <<counsellors, nextCounsellorId, submissions, nextSubmissionId,
                   assignments, suggestions, engineVars, loopVars>>

\* ---------------------------------------------------------------- availability
\* faulty variant: ranges that share only an end day do not overlap
overlapConditionStrict(aStart, aEnd, bStart, bEnd) ==
    ~(sqlDate(aEnd) <= sqlDate(bStart) \/ sqlDate(aStart) >= sqlDate(bEnd))

\* NOT (date(aEnd) < date(bStart) OR date(aStart) > date(bEnd))
overlapCondition(aStart, aEnd, bStart, bEnd) ==
    ~(sqlDate(aEnd) < sqlDate(bStart) \/ sqlDate(aStart) > sqlDate(bEnd))

\* the local time zone of the server process: its UTC offset is constant
\* ("none"), or the clocks go forward or back by one hour during day `day`
FixedOffset == [kind |-> "none", day |-> 0]
Zones == {FixedOffset, [kind |-> "forward", day |-> 1], [kind |-> "back", day |-> MaxDay]}

\* new Date("YYYY-MM-DD"): UTC midnight of the day, in hours
Midnight(day) == 24 * day

\* cur.setDate(cur.getDate() + 1): the same local time on the next local day,
\* 23 or 25 hours later when the offset changes in between
NextLocalDay(cur, zone) ==
    IF zone.kind # "none" /\ cur = Midnight(zone.day)
    THEN cur + (IF zone.kind = "forward" THEN 23 ELSE 25)
    ELSE cur + 24

\* toISOString().split('T')[0]: the UTC calendar day of a timestamp
IsoDay(cur) == cur \div 24

\* the loop of getDatesInRange, from timestamp cur
RECURSIVE DatesFrom(_, _, _)
DatesFrom(cur, end, zone) ==
    IF cur <= end
    THEN <<IsoDay(cur)>> \o DatesFrom(NextLocalDay(cur, zone), end, zone)
    ELSE <<>>

getDatesInRange(startStr, endStr, zone) ==
    DatesFrom(Midnight(startStr), Midnight(endStr), zone)

\* [...new Set(dateStrings)].sort()
RECURSIVE SortedDays(_)
SortedDays(S) ==
    IF S = {} THEN <<>>
    ELSE LET m == CHOOSE x \in S : \A y \in S : x <= y
         IN <<m>> \o SortedDays(S \ {m})

\* the loop of formatDateRanges over sorted[i..], with the open range start..prev
RECURSIVE RangesFrom(_, _, _, _, _)
RangesFrom(sorted, i, start, prev, zone) ==
    IF i > Len(sorted) THEN << <<start, prev>> >>
    ELSE LET curr == sorted[i]
             expected == IsoDay(NextLocalDay(Midnight(prev), zone))
         IN IF curr # expected
            THEN << <<start, prev>> >> \o RangesFrom(sorted, i + 1, curr, curr, zone)
            ELSE RangesFrom(sorted, i + 1, start, curr, zone)

\* the ranges "start -> prev" (or "start") that the returned string lists
formatDateRanges(dateStrings, zone) ==
    IF Len(dateStrings) = 0 THEN <<>>
    ELSE LET sorted == SortedDays(SeqToSet(dateStrings))
         IN RangesFrom(sorted, 2, sorted[1], sorted[1], zone)

\* faulty variant: the query without its status filter
ConflictsAnyStatus(c, start, end, excludeId) ==
    {s \in DOMAIN submissions :
        /\ <<s, c>> \in assignments
        /\ overlapCondition(submissions[s].start_date, submissions[s].end_date, start, end)
        /\ (excludeId # 0 => s # excludeId)}

\* faulty variant: exclude_submission_id is not applied
ConflictsNoExclusion(c, start, end, excludeId) ==
    {s \in DOMAIN submissions :
        /\ <<s, c>> \in assignments
        /\ submissions[s].status = "confirmed"
        /\ overlapCondition(submissions[s].start_date, submissions[s].end_date, start, end)}

\* the conflicts query of counsellor c; excludeId 0 is no exclusion
Conflicts(c, start, end, excludeId) ==
    {s \in DOMAIN submissions :
        /\ <<s, c>> \in assignments
        /\ submissions[s].status = "confirmed"
        /\ overlapCondition(submissions[s].start_date, submissions[s].end_date, start, end)
        /\ (excludeId # 0 => s # excludeId)}

\* the days of the conflicts that the query window contains
BusySet(conflicts, requestedSet, zone) ==
    UNION {SeqToSet(getDatesInRange(submissions[s].start_date,
                                    submissions[s].end_date, zone)) \cap requestedSet :
           s \in conflicts}

\* steps 1 to 3 of GET /counsellors/availability for the conflicts of a
\* counsellor: the requested days, the busy days, the status
ClassifyConflicts(conflicts, start, end, zone) ==
    LET requestedDates == getDatesInRange(start, end, zone)
        totalRequested == Len(requestedDates)
        requestedSet == SeqToSet(requestedDates)
        busySet == BusySet(conflicts, requestedSet, zone)
        busyCount == Cardinality(busySet)
        InBusy(d) == d \in busySet
        NotBusy(d) == ~InBusy(d)
    IN IF busyCount = 0
       THEN [status |-> "available", available_ranges |-> <<>>, conflicts |-> conflicts]
       ELSE IF busyCount >= totalRequested
       THEN [status |-> "busy", available_ranges |-> <<>>, conflicts |-> conflicts]
       ELSE [status |-> "partially_available",
             available_ranges |-> formatDateRanges(SelectSeq(requestedDates, NotBusy), zone),
             conflicts |-> conflicts]

\* the row that GET /counsellors/availability returns for counsellor c
AvailabilityRow(c, start, end, excludeId, zone) ==
    ClassifyConflicts(Conflicts(c, start, end, excludeId), start, end, zone)

\* GET /counsellors/availability?start&end&exclude_submission_id on a server
\* in time zone `zone`; the response is recorded, the store is not written
Availability(start, end, exclude_submission_id, zone) ==
    /\ last' = IF start = 0 \/ end = 0
               THEN [op |-> "availability", id |-> 0, res |-> "400", ids |-> <<>>,
                     pre |-> NoRow, preAsg |-> {}]
               ELSE [op |-> "availability", id |-> exclude_submission_id, res |-> "ok",
                     ids |-> <<start, end>>, pre |-> NoRow, preAsg |-> {},
                     zone |-> zone,
                     rows |-> [c \in {k \in DOMAIN counsellors : counsellors[k]} |->
                                  AvailabilityRow(c, start, end, exclude_submission_id, zone)]]
    /\ UNCHANGED <<counsellors, nextCounsellorId, submissions, nextSubmissionId,
                   assignments, suggestions, today, engineVars, loopVars>>

\* the row of the counsellor-facing listings: available is
\* conflicts.length === 0
PublicRow(c, start, end, excludeId) ==
    [available |-> Conflicts(c, start, end, excludeId) = {},
     conflicts |-> Conflicts(c, start, end, excludeId)]

\* GET /counsellors/availability-public?start&end&exclude_submission_id, for
\* an admin or a counsellor
AvailabilityPublic(user, start, end, exclude_submission_id) ==
    /\ last' = IF start = 0 \/ end = 0
               THEN [op |-> "availability-public", id |-> 0, res |-> "400", ids |-> <<>>,
                     pre |-> NoRow, preAsg |-> {}]
               ELSE [op |-> "availability-public", id |-> exclude_submission_id,
                     res |-> "ok", ids |-> <<start, end>>, pre |-> NoRow, preAsg |-> {},
                     user |-> user,
                     rows |-> [c \in {k \in DOMAIN counsellors : counsellors[k]} |->
                                  PublicRow(c, start, end, exclude_submission_id)]]
    /\ UNCHANGED <<counsellors, nextCounsellorId, submissions, nextSubmissionId,
                   assignments, suggestions, today, engineVars, loopVars>>

\* GET /staff-availability?start&end, for a counsellor: the query has no
\* exclusion
StaffAvailability(start, end) ==
    /\ last' = IF start = 0 \/ end = 0
               THEN [op |-> "staff-availability", id |-> 0, res |-> "400", ids |-> <<>>,
                     pre |-> NoRow, preAsg |-> {}]
               ELSE [op |-> "staff-availability", id |-> 0,
                     res |-> "ok", ids |-> <<start, end>>, pre |-> NoRow, preAsg |-> {},
                     rows |-> [c \in {k \in DOMAIN counsellors : counsellors[k]} |->
                                  PublicRow(c, start, end, 0)]]
    /\ UNCHANGED <<counsellors, nextCounsellorId, submissions, nextSubmissionId,
                   assignments, suggestions, today, engineVars, loopVars>>

\* ---------------------------------------------------------------- jobs and notification requests
\* the response of a job call: res is "ok" or "throw" as the caller of the job
\* function sees it, result the returned value
\* the operation before was a run of the same job function on the same
\* argument, at the same clock reading, that met no storage failure
RunsAgain(job, arg) ==
    /\ last.op = "job" /\ last.job = job /\ last.id = arg
    /\ last.fault = "none" /\ last.at = now

JobRecord(job, via, arg, fault, r) ==
    Record("job", arg, IF r.threw THEN "throw" ELSE "ok", <<>>)
        @@ [job |-> job, via |-> via, fault |-> fault,
            result |-> IF r.threw THEN Neutral(job) ELSE r.res, at |-> now,
            again |-> RunsAgain(job, arg)]

\* a job function called by the scheduler (cron.schedule) or by
\* POST /notifications/trigger/:type; the trigger passes force = true to the
\* weekly report
JobEffects(job, via, fault) ==
    \E r \in {CallJob(Db, job, Store, 0, via = "trigger", fault)} :
       /\ r.st.next <= MaxNotifications + 1
       /\ notifications' = r.st.n
       /\ nextNotificationId' = r.st.next
       /\ last' = JobRecord(job, via, 0, fault, r)
       /\ UNCHANGED <<counsellors, nextCounsellorId, submissions, nextSubmissionId,
                      assignments, suggestions, today, settings, dismissals,
                      activity_log, now>>

RunJob(job, via, fault) == JobEffects(job, via, fault) /\ UNCHANGED loopVars

\* detectDuplicates(submissionId) called on a stored submission
DetectDuplicates(submissionId, fault) ==
    \E r \in {CallJob(Db, "duplicates", Store, submissionId, FALSE, fault)} :
       /\ r.st.next <= MaxNotifications + 1
       /\ notifications' = r.st.n
       /\ nextNotificationId' = r.st.next
       /\ last' = JobRecord("duplicates", "pass", submissionId, fault, r)
       /\ UNCHANGED <<counsellors, nextCounsellorId, submissions, nextSubmissionId,
                      assignments, suggestions, today, settings, dismissals,
                      activity_log, now, loopVars>>

\* req.user.role of the requests below
RoleOf(user) == IF user = Admin THEN "admin" ELSE "counsellor"

\* faulty variant: the target of the notification is not compared
TargetsAnyone(user, n) == TRUE

\* target_role = ? OR target_role = 'all' OR target_user = ?
Targets(user, n) ==
    n.target_role = RoleOf(user) \/ n.target_role = "all" \/ n.target_user = user

\* SELECT id FROM notifications WHERE id = ? AND (the target matches)
Visible(user, id) == \E n \in notifications : n.id = id /\ Targets(user, n)

SetStatus(N, id, status) ==
    {IF n.id = id THEN [n EXCEPT !.status = status] ELSE n : n \in N}

\* the response of a notification request of the user
UserRecord(user, op, id, res) == Record(op, id, res, <<>>) @@ [user |-> user]

NotFound(user, op, id) ==
    /\ last' = UserRecord(user, op, id, "404")
    /\ UNCHANGED <<counsellors, nextCounsellorId, submissions, nextSubmissionId,
                   assignments, suggestions, today, engineVars, loopVars>>

\* GET /notifications?status=: the ids of the answer; status "" is no filter
GetNotifications(user, status) ==
    /\ last' = UserRecord(user, "feed", 0, "ok")
                  @@ [feed |-> {n.id : n \in {x \in notifications :
                                   /\ Targets(user, x)
                                   /\ status # "" => x.status = status
                                   /\ x.expires_at = 0 \/ x.expires_at > now}}]
    /\ UNCHANGED <<counsellors, nextCounsellorId, submissions, nextSubmissionId,
                   assignments, suggestions, today, engineVars, loopVars>>

\* PUT /notifications/:id/read
MarkRead(user, id) ==
    IF ~Visible(user, id) THEN NotFound(user, "read", id)
    ELSE /\ notifications' = SetStatus(notifications, id, "read")
         /\ last' = UserRecord(user, "read", id, "ok")
         /\ UNCHANGED <<counsellors, nextCounsellorId, submissions, nextSubmissionId,
                        assignments, suggestions, today, nextNotificationId, settings,
                        dismissals, activity_log, now, loopVars>>

\* PUT /notifications/:id/dismiss
DismissNotification(user, id) ==
    IF ~Visible(user, id) THEN NotFound(user, "hide", id)
    ELSE /\ notifications' = SetStatus(notifications, id, "dismissed")
         /\ last' = UserRecord(user, "hide", id, "ok")
         /\ UNCHANGED <<counsellors, nextCounsellorId, submissions, nextSubmissionId,
                        assignments, suggestions, today, nextNotificationId, settings,
                        dismissals, activity_log, now, loopVars>>

\* DELETE /notifications/:id
DeleteNotification(user, id) ==
    IF ~Visible(user, id) THEN NotFound(user, "unnotify", id)
    ELSE /\ notifications' = {n \in notifications : n.id # id}
         /\ last' = UserRecord(user, "unnotify", id, "ok")
         /\ UNCHANGED <<counsellors, nextCounsellorId, submissions, nextSubmissionId,
                        assignments, suggestions, today, nextNotificationId, settings,
                        dismissals, activity_log, now, loopVars>>

\* POST /notifications/mark-all-read
MarkAllRead(user) ==
    /\ notifications' = {IF Targets(user, n) /\ n.status = "unread"
                         THEN [n EXCEPT !.status = "read"] ELSE n : n \in notifications}
    /\ last' = UserRecord(user, "read_all", 0, "ok")
    /\ UNCHANGED <<counsellors, nextCounsellorId, submissions, nextSubmissionId,
                   assignments, suggestions, today, nextNotificationId, settings,
                   dismissals, activity_log, now, loopVars>>

\* DELETE /notifications/clear-read
ClearRead(user) ==
    /\ notifications' = {n \in notifications :
                            ~(Targets(user, n) /\ n.status \in {"read", "dismissed"})}
    /\ last' = UserRecord(user, "clear_read", 0, "ok")
    /\ UNCHANGED <<counsellors, nextCounsellorId, submissions, nextSubmissionId,
                   assignments, suggestions, today, nextNotificationId, settings,
                   dismissals, activity_log, now, loopVars>>

\* faulty variant: foreign keys are not enforced, child rows stay
CascadeOff(rows, id) == rows

\* FOREIGN KEY (submission_id) REFERENCES submissions(id) ON DELETE CASCADE
Cascade(rows, id) == {p \in rows : p[1] # id}

\* POST /duplicates/:id/merge
MergeDuplicates(user, id, keepSubmissionId) ==
    IF user # Admin THEN Rejected("merge", 0, "403", <<>>)
    ELSE IF ~\E n \in notifications : n.id = id /\ n.type = "duplicate_detected"
    THEN Rejected("merge", 0, "404", <<>>)
    ELSE LET n == CHOOSE x \in notifications : x.id = id
             deleteId == IF keepSubmissionId = n.meta THEN n.related ELSE n.meta
         IN \* DELETE FROM submissions WHERE id = deleteId, with its cascades
            /\ submissions' = [x \in DOMAIN submissions \ {deleteId} |-> submissions[x]]
            /\ assignments' = IF deleteId \in DOMAIN submissions
                              THEN Cascade(assignments, deleteId) ELSE assignments
            /\ suggestions' = IF deleteId \in DOMAIN submissions
                              THEN Cascade(suggestions, deleteId) ELSE suggestions
            \* the UPDATE finds the notification unless the cascade removed it
            /\ notifications' =
                  LET kept == IF deleteId \in DOMAIN submissions
                              THEN {x \in notifications : x.related # deleteId}
                              ELSE notifications
                  IN SetStatus(kept, id, "actioned")
            /\ activity_log' = logActivity(activity_log, "submission_merged", user, FALSE)
            /\ last' = Record("merge", deleteId, "ok", <<keepSubmissionId>>)
                          @@ [notification |-> id]
            /\ UNCHANGED <<counsellors, nextCounsellorId, nextSubmissionId, today,
                           nextNotificationId, settings, dismissals, now, loopVars>>

\* POST /duplicates/:id/dismiss
DismissDuplicate(user, id) ==
    IF user # Admin THEN Rejected("dismiss", id, "403", <<>>)
    ELSE IF ~\E n \in notifications : n.id = id /\ n.type = "duplicate_detected"
    THEN Rejected("dismiss", id, "404", <<>>)
    ELSE LET n == CHOOSE x \in notifications : x.id = id
         IN \* INSERT OR IGNORE (new_submission_id, existing_submission_id)
            /\ dismissals' = dismissals \cup {<<n.related, n.meta>>}
            /\ notifications' = SetStatus(notifications, id, "dismissed")
            /\ last' = Record("dismiss", id, "ok", <<n.related, n.meta>>)
            /\ UNCHANGED <<counsellors, nextCounsellorId, submissions, nextSubmissionId,
                           assignments, suggestions, today, nextNotificationId, settings,
                           activity_log, now, loopVars>>

\* an hour passes
AdvanceClock ==
    /\ now < MaxClock
    /\ now' = now + 1
    /\ UNCHANGED <<counsellors, nextCounsellorId, submissions, nextSubmissionId,
                   assignments, suggestions, today, last, notifications,
                   nextNotificationId, settings, dismissals, activity_log, loopVars>>

\* ---------------------------------------------------------------- specification
Next ==
    \/ \E a \in BOOLEAN : CreateCounsellor(a)
    \/ \E c \in CounsellorIds, a \in BOOLEAN : UpdateCounsellor(c, a)
    \/ \E c \in CounsellorIds : DeleteCounsellor(c)
    \/ \E u \in DOMAIN counsellors, d \in DatePairs, ids \in NoSuggested :
          nextSubmissionId <= MaxSubmissions
              /\ CreateSubmission(u, d[1], d[2], PuneExpo, ids, "none")
    \/ \E u \in CounsellorIds, id \in SubmissionIds, d \in DatePairs, ids \in NoSuggested :
          EditSubmission(u, id, d[1], d[2], PuneExpo, ids)
    \/ \E u \in CounsellorIds, id \in SubmissionIds : UpdateRemarks(u, id)
    \/ \E u \in {Admin} \cup CounsellorIds, id \in SubmissionIds : DeleteSubmission(u, id)
    \/ \E id \in SubmissionIds, ids \in IdSeqs, crash \in {"none", "in_tx", "after_commit"} :
          Finalize(id, ids, crash, "none")
    \/ \E id \in SubmissionIds, sb \in SentByInputs,
          es \in EventStatusInputs, crash \in BOOLEAN : UpdateMeta(id, sb, "PAID", es, crash)
    \/ \E id \in SubmissionIds : UpdateMeta(id, 0, "INVALID", "undefined", FALSE)
    \/ \E id \in SubmissionIds, d \in DatePairs : Reschedule(id, d[1], d[2])
    \/ Tick

Spec == Init /\ [][Next]_vars

Assigned(id) == AssignedTo(assignments, id)

\* ---------------------------------------------------------------- availability specification
\* two active counsellors, up to MaxAvailSubmissions submissions of counsellor 1,
\* the staffing requests on them and the admin availability query
MaxAvailSubmissions == 2
AvailSubmissionIds == 1..MaxAvailSubmissions
\* query windows: days of 1..MaxDay + 1, one reversed window, one missing date
Windows == {<<s, e>> \in (1..MaxDay + 1) \X (1..MaxDay + 1) : s <= e}
               \cup {<<MaxDay, 1>>, <<0, 1>>}
ValidDatePairs == {<<s, e>> \in Days \X Days : s <= e}

AvailInit ==
    /\ counsellors = [c \in CounsellorIds |-> TRUE]
    /\ nextCounsellorId = MaxCounsellors + 1
    /\ submissions = << >>
    /\ nextSubmissionId = 1
    /\ assignments = {}
    /\ suggestions = {}
    /\ today = 1
    /\ last = NoLast
    \* the duplicate detection has been switched off in the settings
    /\ notifications = {}
    /\ nextNotificationId = 1
    /\ settings = [DefaultSettings EXCEPT !.duplicate_detection_enabled = "false"]
    /\ dismissals = {}
    /\ activity_log = <<>>
    /\ now = 0
    /\ triggered = <<>>
    /\ running = <<>>

AvailNext ==
    \/ \E d \in ValidDatePairs :
          nextSubmissionId <= MaxAvailSubmissions
              /\ CreateSubmission(1, d[1], d[2], PuneExpo, <<>>, "none")
    \/ \E id \in AvailSubmissionIds, ids \in IdSeqs : Finalize(id, ids, "none", "none")
    \/ \E id \in AvailSubmissionIds : UpdateMeta(id, 0, "PAID", "POSTPONED", FALSE)
    \/ \E id \in AvailSubmissionIds, d \in ValidDatePairs : EditSubmission(1, id, d[1], d[2], PuneExpo, <<>>)
    \* exclude_submission_id is sent on a server with a constant offset only
    \/ \E w \in Windows, q \in ({0} \X Zones) \cup {<<1, FixedOffset>>} :
          Availability(w[1], w[2], q[1], q[2])

AvailSpec == AvailInit /\ [][AvailNext]_vars

\* ---------------------------------------------------------------- job specification
\* The scheduler, the manual trigger and the duplicate check on a store that
\* holds one pending and one staffed request for the same event, under
\* settings chosen by PUT /notifications/settings.
\* thresholds that the small store can reach
LowThresholds ==
    [DefaultSettings EXCEPT !.counsellor_overload_threshold = 1]

Switched(offKeys) ==
    [k \in DOMAIN LowThresholds |-> IF k \in offKeys THEN "false" ELSE LowThresholds[k]]

\* every job is switched off in one of the two and on in the other
SettingsChoices ==
    {Switched({"event_reminder_enabled", "anomaly_detection_enabled"}),
     Switched({"staffing_warning_enabled", "weekly_report_enabled",
               "duplicate_detection_enabled"})}

\* five deletions by counsellor 1 within the last minutes
BulkLog == [i \in 1..5 |-> [action |-> "submission_deleted", username |-> 1, created_at |-> 0]]

ScheduledJobs == {"reminders", "overload", "anomalies", "weekly-report"}

Confirmed(row, at) == [row EXCEPT !.status = "confirmed", !.confirmed_at = at]

NewRow(start_date, end_date, content) ==
    [start_date |-> start_date, end_date |-> end_date, status |-> "pending",
     event_status |-> "ONGOING", submitted_by |-> 1, confirmed_at |-> 0,
     content |-> content]

JobInit ==
    /\ counsellors = [c \in CounsellorIds |-> TRUE]
    /\ nextCounsellorId = MaxCounsellors + 1
    /\ submissions = (1 :> NewRow(MaxDay, MaxDay, PuneExpo))
                        @@ (2 :> Confirmed(NewRow(MaxDay, MaxDay, PuneExpo), 1))
    /\ nextSubmissionId = 3
    /\ assignments = {<<2, c>> : c \in CounsellorIds}
    /\ suggestions = {}
    /\ today = 1
    /\ last = NoLast
    /\ notifications = {}
    /\ nextNotificationId = 1
    /\ settings \in SettingsChoices
    /\ dismissals = {}
    /\ activity_log = BulkLog
    /\ now = 0
    /\ triggered = <<>>
    /\ running = <<>>

JobNext ==
    \/ \E job \in ScheduledJobs, via \in {"scheduler", "trigger"}, fault \in Faults :
          RunJob(job, via, fault)
    \/ \E id \in 1..2, fault \in Faults : DetectDuplicates(id, fault)
    \* the staffed request is finalized again with the same counsellors
    \/ \E fault \in HandlerFaults : Finalize(2, <<1, 2>>, "none", fault)
    \/ \E id \in 1..MaxNotifications : MarkRead(Admin, id)
    \/ \E id \in 1..MaxNotifications : DeleteNotification(Admin, id)
    \/ AdvanceClock

JobSpec == JobInit /\ [][JobNext]_vars

\* ---------------------------------------------------------------- request hook specification
\* The duplicate check of POST /submissions, the overload check of finalize and
\* the dismissal of duplicate warnings.
MaxHookSubmissions == 2

HookInit ==
    /\ counsellors = (1 :> TRUE)
    /\ nextCounsellorId = 2
    /\ submissions = << >>
    /\ nextSubmissionId = 1
    /\ assignments = {}
    /\ suggestions = {}
    /\ today = 1
    /\ last = NoLast
    /\ notifications = {}
    /\ nextNotificationId = 1
    /\ settings = LowThresholds
    /\ dismissals = {}
    /\ activity_log = <<>>
    /\ now = 0
    /\ triggered = <<>>
    /\ running = <<>>

HookNext ==
    \/ \E content \in Contents, fault \in HandlerFaults :
          nextSubmissionId <= MaxHookSubmissions
              /\ CreateSubmission(1, MaxDay, MaxDay, content, <<>>, fault)
    \/ \E id \in 1..MaxHookSubmissions, fault \in HandlerFaults :
          Finalize(id, <<1>>, "none", fault)
    \/ \E id \in 1..MaxHookSubmissions : DetectDuplicates(id, "none")
    \/ \E id \in 1..MaxNotifications : DismissDuplicate(Admin, id)
    \/ AdvanceClock

HookSpec == HookInit /\ [][HookNext]_vars

\* ---------------------------------------------------------------- notification feed specification
\* The feed and the notification requests of the admin and of counsellor 1 on
\* what the overload check and the anomaly detection have raised.
FeedUsers == {Admin, 1}

FeedInit ==
    /\ counsellors = [c \in CounsellorIds |-> TRUE]
    /\ nextCounsellorId = MaxCounsellors + 1
    /\ submissions = (1 :> NewRow(MaxDay, MaxDay, PuneExpo))
                        @@ (2 :> Confirmed(NewRow(MaxDay, MaxDay, PuneExpo), 1))
    /\ nextSubmissionId = 3
    /\ assignments = {<<2, c>> : c \in CounsellorIds}
    /\ suggestions = {}
    /\ today = 1
    /\ last = NoLast
    /\ notifications = {}
    /\ nextNotificationId = 1
    /\ settings = LowThresholds
    /\ dismissals = {}
    /\ activity_log = BulkLog
    /\ now = 0
    /\ triggered = <<>>
    /\ running = <<>>

FeedNext ==
    \/ \E job \in {"overload", "anomalies"} : RunJob(job, "scheduler", "none")
    \/ \E user \in FeedUsers, status \in {"", "unread"} : GetNotifications(user, status)
    \/ \E user \in FeedUsers, id \in 1..MaxNotifications : MarkRead(user, id)
    \/ \E user \in FeedUsers, id \in 1..MaxNotifications : DismissNotification(user, id)
    \/ \E user \in FeedUsers, id \in 1..MaxNotifications : DeleteNotification(user, id)
    \/ \E user \in FeedUsers : MarkAllRead(user)
    \/ \E user \in FeedUsers : ClearRead(user)

FeedSpec == FeedInit /\ [][FeedNext]_vars

\* ---------------------------------------------------------------- scheduler specification
\* the callbacks cron.schedule registers in startCronJobs
CronCallbacks == {[kind |-> "cron", job |-> j] : j \in ScheduledJobs \cup {"cleanup"}}

\* the setTimeout callback of runInitialChecks
InitialCallback == [kind |-> "timeout", job |-> "initial"]

\* POST /notifications/trigger/:type, a request handler that calls a job
TriggerRequests == {[kind |-> "request", job |-> "overload"]}

MaxTriggered == 2

\* a cron timer fires or a request arrives: its callback waits for the loop
TimerFires(cb) ==
    /\ Len(triggered) < MaxTriggered
    /\ triggered' = Append(triggered, cb)
    /\ UNCHANGED <<counsellors, nextCounsellorId, submissions, nextSubmissionId,
                   assignments, suggestions, today, last, engineVars, running>>

CanEnterAlways(stack) == TRUE

\* every callback is a plain function without await: the loop takes the next
\* callback only when the one before it has returned
CanEnter(stack) == stack = <<>>

EnterCallback ==
    /\ CanEnter(running)
    /\ triggered # <<>>
    /\ running' = Append(running, Head(triggered))
    /\ triggered' = Tail(triggered)
    /\ UNCHANGED <<counsellors, nextCounsellorId, submissions, nextSubmissionId,
                   assignments, suggestions, today, last, engineVars>>

\* cleanupExpiredNotifications
CleanupEffects ==
    /\ notifications' = {n \in notifications : ~(n.expires_at # 0 /\ n.expires_at < now)}
    /\ last' = JobRecord("cleanup", "scheduler", 0, "none", [threw |-> FALSE, res |-> 0])
    /\ UNCHANGED <<counsellors, nextCounsellorId, submissions, nextSubmissionId,
                   assignments, suggestions, today, nextNotificationId, settings,
                   dismissals, activity_log, now>>

\* the body of the startup callback: checkEventReminders, then
\* checkCounsellorOverload unless the first call threw
InitialEffects(fault) ==
    \E r1 \in {CallJob(Db, "reminders", Store, 0, FALSE, fault)} :
    \E r \in {IF r1.threw THEN r1 ELSE CallJob(Db, "overload", r1.st, 0, FALSE, "none")} :
       /\ r.st.next <= MaxNotifications + 1
       /\ notifications' = r.st.n
       /\ nextNotificationId' = r.st.next
       /\ last' = JobRecord("initial", "startup", 0, fault, r)
       /\ UNCHANGED <<counsellors, nextCounsellorId, submissions, nextSubmissionId,
                      assignments, suggestions, today, settings, dismissals,
                      activity_log, now>>

Without(seq, i) == [k \in 1..(Len(seq) - 1) |-> IF k < i THEN seq[k] ELSE seq[k + 1]]

\* a callback that has been entered runs to its end and returns
ReturnCallback(i, fault) ==
    /\ i \in DOMAIN running
    /\ running' = Without(running, i)
    /\ UNCHANGED triggered
    /\ CASE running[i].kind = "timeout" -> InitialEffects(fault)
         [] running[i].job = "cleanup"  -> fault = "none" /\ CleanupEffects
         [] running[i].kind = "request" -> JobEffects(running[i].job, "trigger", fault)
         [] OTHER                       -> JobEffects(running[i].job, "scheduler", fault)

\* the server has started: runInitialChecks has set its timer, and a cron
\* timer may have fired before the two seconds were over
SchedInit ==
    /\ counsellors = [c \in CounsellorIds |-> TRUE]
    /\ nextCounsellorId = MaxCounsellors + 1
    /\ submissions = (1 :> NewRow(MaxDay, MaxDay, PuneExpo))
                        @@ (2 :> Confirmed(NewRow(MaxDay, MaxDay, PuneExpo), 1))
    /\ nextSubmissionId = 3
    /\ assignments = {<<2, c>> : c \in CounsellorIds}
    /\ suggestions = {}
    /\ today = 1
    /\ last = NoLast
    /\ notifications = {}
    /\ nextNotificationId = 1
    /\ settings = LowThresholds
    /\ dismissals = {}
    /\ activity_log = BulkLog
    /\ now = 0
    /\ triggered \in {<<InitialCallback>>} \cup {<<cb, InitialCallback>> : cb \in CronCallbacks}
    /\ running = <<>>

SchedNext ==
    \/ \E cb \in CronCallbacks \cup TriggerRequests : TimerFires(cb)
    \/ EnterCallback
    \/ \E i \in 1..MaxTriggered, fault \in {"none", "insert"} : ReturnCallback(i, fault)

SchedSpec == SchedInit /\ [][SchedNext]_vars

\* ---------------------------------------------------------------- staffing specification
StaffSelections == {<<1>>, <<2>>, <<1, 2>>}

\* both counsellors are suggested for the pending submission 1 and assigned
\* to the confirmed submission 2
StaffInit ==
    /\ counsellors = [c \in CounsellorIds |-> TRUE]
    /\ nextCounsellorId = MaxCounsellors + 1
    /\ submissions = (1 :> NewRow(MaxDay, MaxDay, PuneExpo))
                        @@ (2 :> Confirmed(NewRow(MaxDay, MaxDay, PuneExpo), 1))
    /\ nextSubmissionId = 3
    /\ assignments = {<<2, c>> : c \in CounsellorIds}
    /\ suggestions = {<<1, c>> : c \in CounsellorIds}
    /\ today = 1
    /\ last = NoLast
    /\ notifications = {}
    /\ nextNotificationId = 1
    /\ settings = LowThresholds
    /\ dismissals = {}
    /\ activity_log = <<>>
    /\ now = 0
    /\ triggered = <<>>
    /\ running = <<>>

StaffNext ==
    \/ \E id \in CounsellorIds, is_active \in BOOLEAN : UpdateCounsellor(id, is_active)
    \/ \E day \in Days : Availability(day, MaxDay, 0, FixedOffset)
    \/ \E id \in 1..2, ids \in StaffSelections : Finalize(id, ids, "none", "none")
    \/ RunJob("overload", "scheduler", "none")
    \/ \E id \in 1..MaxNotifications : DeleteNotification(Admin, id)

StaffSpec == StaffInit /\ [][StaffNext]_vars

\* ---------------------------------------------------------------- deletion specification
DeleteUsers == {Admin, 1, 2}

\* the activity log of a run holds at most this many rows
MaxActivity == 3

\* submission 1 of counsellor 1 is confirmed and staffed, submission 2 of
\* counsellor 2 is its pending duplicate; both carry suggestions
DeleteInit ==
    /\ counsellors = [c \in CounsellorIds |-> TRUE]
    /\ nextCounsellorId = MaxCounsellors + 1
    /\ submissions = (1 :> Confirmed(NewRow(MaxDay, MaxDay, PuneExpo), 1))
                        @@ (2 :> [NewRow(MaxDay, MaxDay, PuneExpo) EXCEPT !.submitted_by = 2])
    /\ nextSubmissionId = 3
    /\ assignments = {<<1, c>> : c \in CounsellorIds}
    /\ suggestions = {<<1, 1>>} \cup {<<2, c>> : c \in CounsellorIds}
    /\ today = 1
    /\ last = NoLast
    /\ notifications = {}
    /\ nextNotificationId = 1
    /\ settings = LowThresholds
    /\ dismissals = {}
    /\ activity_log = <<>>
    /\ now = 0
    /\ triggered = <<>>
    /\ running = <<>>

DeleteNext ==
    \/ \E id \in 1..2 : DetectDuplicates(id, "none")
    \/ \E id \in 1..2 : Finalize(id, <<2>>, "none", "none")
    \/ \E user \in DeleteUsers, id \in 1..2 : DeleteSubmission(user, id)
    \/ \E user \in {Admin, 1}, id \in 1..MaxNotifications, keep \in 0..2 :
          Len(activity_log) < MaxActivity /\ MergeDuplicates(user, id, keep)

DeleteSpec == DeleteInit /\ [][DeleteNext]_vars

\* ---------------------------------------------------------------- date specification
MaxDateSubmissions == 2

\* no submission yet; duplicate detection is switched off, the anomaly job is on
DateInit ==
    /\ counsellors = [c \in CounsellorIds |-> TRUE]
    /\ nextCounsellorId = MaxCounsellors + 1
    /\ submissions = << >>
    /\ nextSubmissionId = 1
    /\ assignments = {}
    /\ suggestions = {}
    /\ today = 1
    /\ last = NoLast
    /\ notifications = {}
    /\ nextNotificationId = 1
    /\ settings = [DefaultSettings EXCEPT !.duplicate_detection_enabled = "false"]
    /\ dismissals = {}
    /\ activity_log = <<>>
    /\ now = 0
    /\ triggered = <<>>
    /\ running = <<>>

DateNext ==
    \/ \E start_date \in DateTexts, end_date \in DateTexts :
          /\ nextSubmissionId <= MaxDateSubmissions
          /\ CreateSubmission(1, start_date, end_date, PuneExpo, <<>>, "none")
    \/ \E id \in 1..MaxDateSubmissions, start_date \in DateTexts, end_date \in DateTexts :
          EditSubmission(1, id, start_date, end_date, PuneExpo, <<>>)
    \/ \E id \in 1..MaxDateSubmissions, start_date \in DateTexts, end_date \in DateTexts :
          Reschedule(id, start_date, end_date)
    \/ RunJob("anomalies", "scheduler", "none")

DateSpec == DateInit /\ [][DateNext]_vars

\* ---------------------------------------------------------------- overlap specification
MaxOverlapDay == 3

\* a1, a2, b1, b2: every pair of ranges over the days, ordered or not
OverlapInputs ==
    (1..MaxOverlapDay) \X (1..MaxOverlapDay) \X (1..MaxOverlapDay) \X (1..MaxOverlapDay)

\* no tables are involved; `last` holds the two ranges to compare
OverlapInit ==
    /\ counsellors = << >>
    /\ nextCounsellorId = 1
    /\ submissions = << >>
    /\ nextSubmissionId = 1
    /\ assignments = {}
    /\ suggestions = {}
    /\ today = 1
    /\ \E in \in OverlapInputs : last = Record("ranges", 0, "none", in)
    /\ EngineInit

\* both predicates applied to the ranges, in both orders, and to the first
\* range against itself
ApplyOverlap ==
    /\ last.op = "ranges"
    /\ last' = [last EXCEPT !.op = "overlap"] @@
          [js      |-> datesOverlap(last.ids[1], last.ids[2], last.ids[3], last.ids[4]),
           jsSwap  |-> datesOverlap(last.ids[3], last.ids[4], last.ids[1], last.ids[2]),
           jsSelf  |-> datesOverlap(last.ids[1], last.ids[2], last.ids[1], last.ids[2]),
           sql     |-> overlapCondition(last.ids[1], last.ids[2], last.ids[3], last.ids[4]),
           sqlSwap |-> overlapCondition(last.ids[3], last.ids[4], last.ids[1], last.ids[2]),
           sqlSelf |-> overlapCondition(last.ids[1], last.ids[2], last.ids[1], last.ids[2])]
    /\ UNCHANGED <<counsellors, nextCounsellorId, submissions, nextSubmissionId,
                   assignments, suggestions, today, engineVars, loopVars>>

OverlapNext == ApplyOverlap

OverlapSpec == OverlapInit /\ [][OverlapNext]_vars

\* ---------------------------------------------------------------- similarity specification
\* submissions that differ in every field calculateSimilarity reads
SimContents ==
    {PuneExpo, GoaSummit, NoContent,
     [PuneExpo EXCEPT !.organizer_id = 0, !.city = <<"p", "u", "n", "e">>],
     [PuneExpo EXCEPT !.organizer_id = 0, !.organizer = "acme | expo | fair",
                      !.city = <<"P", "u", "n", "a">>, !.event_name_id = 2],
     [GoaSummit EXCEPT !.country = "India", !.city = <<"G", "o">>, !.event_name_id = 0],
     \* organizer 2 under the organizer text of organizer 1: PUT /submissions/:id
     \* writes the organizer column and leaves organizer_id
     [PuneExpo EXCEPT !.organizer_id = 2]}
SimRanges == {<<1, 1>>, <<1, 2>>, <<2, 2>>}
SimRows == {NewRow(r[1], r[2], c) : r \in SimRanges, c \in SimContents}

\* no tables are involved; `last` holds the two submissions to compare
SimInit ==
    /\ counsellors = << >>
    /\ nextCounsellorId = 1
    /\ submissions = << >>
    /\ nextSubmissionId = 1
    /\ assignments = {}
    /\ suggestions = {}
    /\ today = 1
    /\ \E x \in SimRows, y \in SimRows :
          last = Record("pair", 0, "none", <<>>) @@ [x |-> x, y |-> y]
    /\ EngineInit

\* calculateSimilarity applied to the pair in both orders
ApplySimilarity ==
    /\ last.op = "pair"
    /\ last' = [last EXCEPT !.op = "similarity"] @@
          [xy |-> calculateSimilarity(last.x, last.y),
           yx |-> calculateSimilarity(last.y, last.x)]
    /\ UNCHANGED <<counsellors, nextCounsellorId, submissions, nextSubmissionId,
                   assignments, suggestions, today, engineVars, loopVars>>

SimNext == ApplySimilarity

SimSpec == SimInit /\ [][SimNext]_vars

\* ---------------------------------------------------------------- duplicate specification
\* the existing submission `target` is a Pune expo; the other stored
\* submissions are Goa summits on the same days, one fewer than the
\* candidate limit or as many
DupFillers == {CandidateLimit - 1, CandidateLimit}

DupInit ==
    /\ counsellors = [c \in CounsellorIds |-> TRUE]
    /\ nextCounsellorId = MaxCounsellors + 1
    /\ \E fillers \in DupFillers : \E target \in {1, fillers + 1} :
          /\ submissions = [s \in 1..(fillers + 1) |->
                               NewRow(1, MaxDay, IF s = target THEN PuneExpo ELSE GoaSummit)]
          /\ nextSubmissionId = fillers + 2
    /\ assignments = {}
    /\ suggestions = {}
    /\ today = 1
    /\ last = NoLast
    /\ EngineInit

DupNext ==
    \/ \E day \in Days, content \in Contents :
          /\ nextSubmissionId <= CandidateLimit + 2
          /\ CreateSubmission(1, day, MaxDay, content, <<>>, "none")
    \/ \E id \in {1, CandidateLimit, CandidateLimit + 1} :
          /\ last.op = "init"
          /\ UpdateMeta(id, 0, "undefined", "CANCELLED", FALSE)
    \/ \E id \in 1..MaxNotifications : DismissDuplicate(Admin, id)
    \/ \E id \in 1..MaxNotifications : MarkRead(Admin, id)

DupSpec == DupInit /\ [][DupNext]_vars

\* ---------------------------------------------------------------- notification store specification
\* type and title of the calls
NotifyKinds == {<<"anomaly", "Unusual submission volume">>,
                <<"anomaly", "Data entry error detected">>,
                <<"staffing_warning", "Counsellor workload alert">>,
                <<"weekly_report", "Weekly Summary Report">>}

\* one call of createNotification; related 0 is no related submission
CreateNotificationCall(type, title, related, insertFails) ==
    \E st \in {createNotification(Db, Store, type, "medium", title, 0, related, insertFails)} :
       /\ st.next <= MaxNotifications + 1
       /\ notifications' = st.n
       /\ nextNotificationId' = st.next
       /\ last' = Record("notify", 0, "ok", <<>>) @@
             [type |-> type, title |-> title, related |-> related, fails |-> insertFails,
              returned |-> ReturnedId(Db, Store, type, title, related, insertFails)]
       /\ UNCHANGED <<counsellors, nextCounsellorId, submissions, nextSubmissionId,
                      assignments, suggestions, today, settings, dismissals,
                      activity_log, now, loopVars>>

NotifyInit ==
    /\ counsellors = [c \in CounsellorIds |-> TRUE]
    /\ nextCounsellorId = MaxCounsellors + 1
    /\ submissions = (1 :> NewRow(MaxDay, MaxDay, PuneExpo))
    /\ nextSubmissionId = 2
    /\ assignments = {}
    /\ suggestions = {}
    /\ today = 1
    /\ last = NoLast
    /\ EngineInit

NotifyNext ==
    \/ \E kind \in NotifyKinds, related \in {0, 1}, insertFails \in BOOLEAN :
          CreateNotificationCall(kind[1], kind[2], related, insertFails)
    \/ \E id \in 1..MaxNotifications : MarkRead(Admin, id)
    \/ \E id \in 1..MaxNotifications : DeleteNotification(Admin, id)
    \/ AdvanceClock

NotifySpec == NotifyInit /\ [][NotifyNext]_vars

\* ---------------------------------------------------------------- properties
Row(id) == RowOf(submissions, id)

\* the target of the last request is as it was before the request
TargetUnchanged == Row(last.id) = last.pre /\ Assigned(last.id) = last.preAsg

\* every id of the list is a distinct, existing, active counsellor
AllActive(ids) ==
    /\ \A i \in 1..Len(ids) : ids[i] \in DOMAIN counsellors /\ counsellors[ids[i]]
    /\ \A i, j \in 1..Len(ids) : i # j => ids[i] # ids[j]

\* C1: after a successful finalize of submission S with counsellor ids X, the
\* assignment set of S is exactly X and S is confirmed, whatever S had before
C1_FinalizeReplaces ==
    (last.op = "finalize" /\ last.res = "ok") =>
        /\ Row(last.id).status = "confirmed"
        /\ Assigned(last.id) = SeqToSet(last.ids)

\* a re-finalize of a confirmed submission that drops a counsellor it had
C1_Witness ==
    /\ last.op = "finalize" /\ last.res = "ok"
    /\ last.pre.status = "confirmed"
    /\ Cardinality(last.preAsg) = 2 /\ Len(last.ids) = 1

\* C2: a successful metadata update whose resulting event_status is CANCELLED
\* or POSTPONED leaves the submission not_applicable with no assignment
C2_CancelClears ==
    (/\ last.op = "meta" /\ last.res = "ok"
     /\ Row(last.id).event_status \in {"CANCELLED", "POSTPONED"}) =>
        /\ Row(last.id).status = "not_applicable"
        /\ Assigned(last.id) = {}

\* a confirmed, staffed submission has just been postponed
C2_Witness ==
    /\ last.op = "meta" /\ last.res = "ok"
    /\ last.pre.status = "confirmed" /\ last.preAsg # {}
    /\ Row(last.id).event_status = "POSTPONED"

\* C3: every submission whose event_status is CANCELLED or POSTPONED is
\* not_applicable and has no assignment
C3_CancelledIsNotApplicable ==
    \A s \in DOMAIN submissions :
        submissions[s].event_status \in {"CANCELLED", "POSTPONED"} =>
            submissions[s].status = "not_applicable" /\ Assigned(s) = {}

\* C4: a submission has assignments only if its status is confirmed
C4_AssignedOnlyIfConfirmed ==
    \A s \in DOMAIN submissions :
        Assigned(s) # {} => submissions[s].status = "confirmed"

\* C4 as amended: a submission has assignments only if it is confirmed, or it
\* is pending after an earlier finalize (confirmed_at is set); a
\* not_applicable submission never has any, and no row outlives its submission
C4_AssignedOnlyIfFinalized ==
    /\ \A s \in DOMAIN submissions :
          Assigned(s) # {} =>
              \/ submissions[s].status = "confirmed"
              \/ submissions[s].status = "pending" /\ submissions[s].confirmed_at # 0
    /\ \A p \in assignments : p[1] \in DOMAIN submissions

\* a cancel/postpone has just removed the assignments of a staffed submission
C4_Witness ==
    /\ last.op = "meta" /\ last.res = "ok" /\ last.preAsg # {}
    /\ Row(last.id).status = "not_applicable"

\* C5: every confirmed submission has at least one assignment
C5_ConfirmedIsStaffed ==
    \A s \in DOMAIN submissions :
        submissions[s].status = "confirmed" => Assigned(s) # {}

\* C6: when the process stops inside a finalize or a cancel/postpone update,
\* the store holds the complete pre-state or the complete post-state
C6_CrashAtomic ==
    (last.res = "crash") =>
        \/ TargetUnchanged
        \/ /\ last.op = "finalize"
           /\ Row(last.id).status = "confirmed"
           /\ Assigned(last.id) = SeqToSet(last.ids)
        \/ /\ last.op = "meta"
           /\ Row(last.id).status = "not_applicable"
           /\ Assigned(last.id) = {}

\* C7: an edit by the owner that passes validation is rejected without any
\* change when the submission is confirmed and today >= start_date, succeeds
\* and resets the status to pending when it is confirmed and today <
\* start_date, and succeeds on any date when it is pending
C7_EditDateRule ==
    (last.op = "edit" /\ last.res \in {"ok", "started"}) =>
        /\ (last.pre.status = "confirmed" /\ today >= last.pre.start_date) =>
              last.res = "started" /\ TargetUnchanged
        /\ (last.pre.status = "confirmed" /\ today < last.pre.start_date) =>
              last.res = "ok" /\ Row(last.id).status = "pending"
        /\ (last.pre.status = "pending") =>
              last.res = "ok" /\ Row(last.id).status = "pending"

\* the edit of a confirmed submission on its start date has just been rejected
C7_Witness ==
    /\ last.op = "edit" /\ last.res = "started"
    /\ last.pre.status = "confirmed" /\ today = last.pre.start_date

\* C8: a finalize is accepted only if every supplied id is a distinct active
\* counsellor; one rejected for its ids changes nothing of the submission
C8_FinalizeAllOrNothing ==
    /\ (last.op = "finalize" /\ last.res \in {"ok", "crash"}) => AllActive(last.ids)
    /\ (last.op = "finalize" /\ last.res = "inactive") =>
          ~AllActive(last.ids) /\ TargetUnchanged

\* a list with one active and one other id has just been rejected as a whole
C8_Witness ==
    /\ last.op = "finalize" /\ last.res = "inactive"
    /\ SelectedCounsellors(last.ids, counsellors) # {}
    /\ last.pre.status = "confirmed"

\* C9: a finalize of a COMPLETED or CANCELLED event fails and changes nothing;
\* a re-finalize of a confirmed event in any other event_status is never
\* refused for its event_status or its dates
C9_FinalizeClosedEvents ==
    (last.op = "finalize") =>
        /\ (last.pre.event_status \in {"COMPLETED", "CANCELLED"}) =>
              last.res \in {"400", "blocked"} /\ TargetUnchanged
        /\ (/\ last.pre.status = "confirmed"
            /\ last.pre.event_status \in {"ONGOING", "POSTPONED"}
            /\ AllActive(last.ids) /\ last.ids # <<>>) =>
              last.res \in {"ok", "crash"}

\* the staffing of a completed, staffed event has just been refused
C9_Witness ==
    /\ last.op = "finalize" /\ last.res = "blocked"
    /\ last.pre.event_status = "COMPLETED" /\ last.preAsg # {}

\* C10: a not_applicable submission stays not_applicable under every request
\* other than a reschedule of it
C10_NotApplicableIsTerminal ==
    (/\ last.pre.status = "not_applicable"
     /\ last.op \in {"finalize", "edit", "remarks", "meta"}) =>
        Row(last.id).status = "not_applicable"

\* C11: a reschedule with dates start_date <= end_date of an existing
\* not_applicable submission sets its dates to the supplied range, event_status
\* to ONGOING and status to pending; one with start_date > end_date, a missing
\* date or an unknown id is rejected and changes nothing
C11_Reschedule ==
    (last.op = "reschedule") =>
        LET s == last.ids[1]
            e == last.ids[2]
            wellFormed == s # 0 /\ e # 0 /\ s <= e
        IN /\ (wellFormed /\ last.pre.status = "not_applicable") =>
                 /\ last.res = "ok"
                 /\ Row(last.id) = [last.pre EXCEPT !.start_date = s, !.end_date = e,
                                        !.event_status = "ONGOING", !.status = "pending"]
           /\ (~wellFormed \/ last.pre = NoRow) =>
                 last.res \in {"400", "404"} /\ TargetUnchanged
           /\ (last.res # "ok") => (~wellFormed \/ last.pre = NoRow)

\* a cancelled submission has just been rescheduled to other dates
C11_Witness ==
    /\ last.op = "reschedule" /\ last.res = "ok"
    /\ last.pre.status = "not_applicable" /\ last.pre.event_status = "CANCELLED"
    /\ last.pre.start_date # Row(last.id).start_date

\* the window days on which counsellor c has a confirmed assignment
BusyDaysOf(c, start, end) ==
    {d \in start..end : \E s \in DOMAIN submissions :
        /\ <<s, c>> \in assignments
        /\ submissions[s].status = "confirmed"
        /\ submissions[s].start_date <= d /\ d <= submissions[s].end_date}

\* the days that a list of ranges covers
Covered(ranges) == UNION {r[1]..r[2] : r \in SeqToSet(ranges)}

\* the row returned for counsellor c classifies the window start..end rightly
ClassifiedRight(row, c, start, end) ==
    LET R == end - start + 1
        B == Cardinality(BusyDaysOf(c, start, end))
    IN /\ (row.status = "available") <=> (B = 0)
       /\ (row.status = "busy") <=> (B >= R)
       /\ (row.status = "partially_available") <=> (0 < B /\ B < R)
       /\ (row.status = "partially_available") =>
             Covered(row.available_ranges) = (start..end) \ BusyDaysOf(c, start, end)

\* an answered admin availability query without exclusion, window start <= end
AnsweredQuery ==
    /\ last.op = "availability" /\ last.res = "ok" /\ last.id = 0
    /\ last.ids[1] <= last.ids[2]

\* C12: for every window qStart <= qEnd and every active counsellor, with R the
\* days of the window and B the window days covered by the counsellor's
\* confirmed assignments, the status is available iff B = 0, busy iff B >= R
\* and partially_available otherwise, and in the partial case the free ranges
\* cover exactly the window days that are not busy
C12_Classification ==
    AnsweredQuery =>
        \A c \in DOMAIN counsellors : counsellors[c] =>
            /\ c \in DOMAIN last.rows
            /\ ClassifiedRight(last.rows[c], c, last.ids[1], last.ids[2])

\* the classification of C12 on a server whose UTC offset never changes
C12_ClassificationFixedOffset ==
    (AnsweredQuery /\ last.zone = FixedOffset) =>
        \A c \in DOMAIN counsellors : counsellors[c] =>
            /\ c \in DOMAIN last.rows
            /\ ClassifiedRight(last.rows[c], c, last.ids[1], last.ids[2])

\* a partial answer with two free ranges around one busy day
C12_Witness ==
    /\ AnsweredQuery /\ last.zone = FixedOffset
    /\ \E c \in DOMAIN last.rows :
          /\ last.rows[c].status = "partially_available"
          /\ Len(last.rows[c].available_ranges) = 2

\* C13: a submission counts toward busy time only while it is confirmed: once
\* a cancel/postpone or a counsellor edit has moved it out of confirmed, no
\* availability query counts its counsellors busy on its days, and a pending
\* submission is never among the conflicts
C13_OnlyConfirmedIsBusy ==
    /\ \A s \in DOMAIN submissions, c \in CounsellorIds, w \in Windows, z \in Zones :
          (submissions[s].status # "confirmed" /\ w[1] # 0) =>
              LET row == AvailabilityRow(c, w[1], w[2], 0, z)
              IN /\ s \notin row.conflicts
                 /\ BusySet(row.conflicts, SeqToSet(getDatesInRange(w[1], w[2], z)), z)
                        \subseteq BusyDaysOf(c, w[1], w[2])
    /\ (/\ last.op \in {"meta", "edit"} /\ last.res = "ok"
        /\ last.pre.status = "confirmed") =>
          /\ Row(last.id).status # "confirmed"
          /\ \A c \in last.preAsg, w \in Windows :
                w[1] # 0 => last.id \notin Conflicts(c, w[1], w[2], 0)

\* an edit has just reopened a staffed submission whose counsellor remains
\* busy through the other, still confirmed submission only
C13_Witness ==
    /\ last.op = "edit" /\ last.res = "ok" /\ last.pre.status = "confirmed"
    /\ Assigned(last.id) # {}
    /\ \E s \in DOMAIN submissions : \E c \in Assigned(last.id) :
          /\ s # last.id /\ submissions[s].status = "confirmed" /\ c \in Assigned(s)
          /\ Conflicts(c, 1, MaxDay, 0) = {s}

Recorded(a, b) == <<a, b>> \in dismissals \/ <<b, a>> \in dismissals

\* the candidates returned by a list-valued job result
Returned(result) == {result[i] : i \in 1..Len(result)}

\* C15: once a pair of submission ids is recorded in duplicate_dismissals, in
\* either order, no duplicate-detection pass over either of the two returns the
\* pair or inserts a duplicate_detected notification for it
C15_DismissedNeverReflagged ==
    [][/\ \A n \in notifications' :
              (n.type = "duplicate_detected" /\ n.id \notin {m.id : m \in notifications})
                  => ~Recorded(n.related, n.meta)
       /\ (last'.op = "job" /\ last'.job = "duplicates")
              => \A c \in Returned(last'.result) : ~Recorded(last'.id, c)]_vars

\* a pass over the older submission of a pair that was dismissed in the order
\* (new, existing) and still scores above the threshold
C15_Witness ==
    /\ last.op = "job" /\ last.job = "duplicates" /\ last.fault = "none"
    /\ \E c \in DOMAIN submissions :
          /\ <<c, last.id>> \in dismissals
          /\ <<last.id, c>> \notin dismissals
          /\ last.id \in DOMAIN submissions
          /\ calculateSimilarity(submissions[last.id], submissions[c]).score
                >= getSetting(Db, "duplicate_threshold")
          /\ c \notin Returned(last.result)

WeeklyReports == {n \in notifications : n.type = "weekly_report"}

\* the last operation was a generation of the weekly report that returned true
GeneratedReport ==
    last.op = "job" /\ last.job = "weekly-report" /\ last.res = "ok" /\ last.result

\* C16: at most one weekly_report notification exists, and exactly one exists
\* right after each successful generation
C16_SingleWeeklyReport ==
    /\ Cardinality(WeeklyReports) <= 1
    /\ GeneratedReport => Cardinality(WeeklyReports) = 1

\* what holds of the weekly report whatever fails: never two of them, and
\* exactly one after a generation that met no storage failure
C16_AtMostOneWeeklyReport ==
    /\ Cardinality(WeeklyReports) <= 1
    /\ (GeneratedReport /\ last.fault = "none") => Cardinality(WeeklyReports) = 1

DetectionJobs == Jobs \ {"weekly-report"}

\* this step or a step before it, with nothing but the clock in between, was a
\* run of a detection job that met no storage failure, and this step runs the
\* same job on the same argument again
SecondRun ==
    /\ last.op = "job" /\ last.job \in DetectionJobs /\ last.fault = "none"
    /\ last'.op = "job" /\ last'.job = last.job /\ last'.id = last.id

SwitchedOff(job) == settings[EnabledKey(job)] \notin {"true", "1"}

\* this step calls the job by the scheduler, by the manual trigger or on a
\* submission and the lookup of its setting does not fail; manual: the weekly
\* report is called by the manual trigger
CallsSwitchedOff(manual) ==
    /\ last'.op = "job" /\ last'.fault # "enabled"
    /\ SwitchedOff(last'.job)
    /\ (last'.job = "weekly-report" /\ last'.via = "trigger") => manual

\* this step is a finalize whose overload check is switched off
FinalizesSwitchedOff ==
    /\ last'.op = "finalize" /\ last'.res = "ok" /\ last'.fault # "enabled"
    /\ SwitchedOff("overload")

\* C18 as stated: a job whose enabled setting is off writes no notification
\* and returns its neutral result by every path, the manual trigger included
C18_SwitchedOffByAnyPath ==
    [][/\ CallsSwitchedOff(TRUE)
          => (notifications' = notifications /\ last'.res = "ok"
                 /\ last'.result = Neutral(last'.job))
       /\ FinalizesSwitchedOff => notifications' = notifications]_vars

\* C18: the same by the scheduler, by the request hooks and by the manual
\* trigger of the reminders, the overload check and the anomaly detection; the
\* manual trigger of the weekly report is not covered
C18_SwitchedOff ==
    [][/\ CallsSwitchedOff(FALSE)
          => (notifications' = notifications /\ last'.res = "ok"
                 /\ last'.result = Neutral(last'.job))
       /\ FinalizesSwitchedOff => notifications' = notifications]_vars

\* a job that is switched off has been called and has returned its neutral
\* result where it would have written a notification had it been on
C18_Witness ==
    /\ last.op = "job" /\ last.fault = "none" /\ last.job # "weekly-report"
    /\ SwitchedOff(last.job)
    /\ last.result = Neutral(last.job)
    /\ CallJob([Db EXCEPT !.settings = LowThresholds], last.job, Store, last.id,
               FALSE, "none").st # Store

\* C19: a storage failure at any step of a detection job, the lookup of its
\* enabled setting included, never leaves the job function as an exception:
\* the job returns its neutral result
C19_JobNeverThrows ==
    (last.op = "job" /\ last.fault \in {"enabled", "query"})
        => (last.res = "ok" /\ last.result = Neutral(last.job))

\* the same for a failure inside the try block of the job only
C19_JobCatchesInsideTry ==
    (last.op = "job" /\ last.fault = "query")
        => (last.res = "ok" /\ last.result = Neutral(last.job))

\* the last request called a detection job or logActivity and a storage
\* failure occurred in it
FailedInside(op) == last.op = op /\ "fault" \in DOMAIN last /\ last.fault # "none"

\* C20: creation and finalize keep their committed writes and answer success
\* even if the duplicate check, the overload check or the activity logging
\* inside the request fails
C20_RequestSurvivesJobFailure ==
    /\ FailedInside("create")
          => /\ last.res = "ok"
             /\ last.id \in DOMAIN submissions
             /\ submissions[last.id].status = "pending"
    /\ FailedInside("finalize")
          => /\ last.res = "ok"
             /\ submissions[last.id].status = "confirmed"
             /\ AssignedTo(assignments, last.id) = SeqToSet(last.ids)

\* a second request for the same event has been created while the lookup of
\* the duplicate-detection setting failed
C20_Witness ==
    /\ FailedInside("create") /\ last.fault = "enabled"
    /\ \E s \in DOMAIN submissions :
          s # last.id /\ submissions[s].content = submissions[last.id].content
    /\ last.id \in DOMAIN submissions

\* the feed of the user returns the notification: its target matches the user
\* and it has not expired
InFeed(user, n) ==
    /\ \/ n.target_role = (IF user = Admin THEN "admin" ELSE "counsellor")
       \/ n.target_role = "all"
       \/ n.target_user = user
    /\ n.expires_at = 0 \/ n.expires_at > now

MutatingRequests == {"read", "hide", "unnotify", "read_all", "clear_read"}

\* C21: mark-read, dismiss, delete, mark-all-read and clear-read change or
\* delete a notification only if the feed of the caller returns it
C21_MutatesOnlyVisible ==
    [][(last'.op \in MutatingRequests)
          => \A n \in notifications :
                n \notin notifications' => InFeed(last'.user, n)]_vars

\* a counsellor has asked to mark everything read, or one notification, while
\* an unread notification for the admins is in the store, and it is still unread
C21_Witness ==
    /\ last.op \in {"read_all", "read"} /\ last.user # Admin
    /\ \E n \in notifications :
          /\ n.status = "unread" /\ ~InFeed(last.user, n)
          /\ last.op = "read" => last.id = n.id

\* The job functions one callback calls.
JobsOf(cb) == IF cb.kind = "timeout" THEN {"reminders", "overload"} ELSE {cb.job}

\* C22: no two runs of the same periodic job are ever in progress at the same
\* time: two callbacks that have been entered and have not returned never call
\* the same job function.
C22_NoOverlappingRuns ==
    \A i, j \in DOMAIN running :
        i # j => JobsOf(running[i]) \cap JobsOf(running[j]) = {}

\* a run of a job is in progress while the next run of the same job is due
C22_Witness ==
    /\ running # <<>>
    /\ \E k \in DOMAIN triggered : JobsOf(triggered[k]) \cap JobsOf(running[1]) # {}

ActiveCounsellors == {c \in DOMAIN counsellors : counsellors[c]}

\* The counsellors whose confirmed events meet the overload threshold.
Loaded == {c \in DOMAIN counsellors :
              EventCount(Db, c) >= settings.counsellor_overload_threshold}

\* PUT /counsellors/:id writes the counsellors row and nothing else.
KeepsStaffingRows ==
    [][last'.op = "updateCounsellor" =>
          /\ assignments' = assignments
          /\ suggestions' = suggestions
          /\ submissions' = submissions
          /\ notifications' = notifications
          /\ DOMAIN counsellors' = DOMAIN counsellors]_vars

\* An inactive counsellor has no row in an availability listing and is
\* refused by finalize.
HiddenFromStaffing ==
    /\ [](last.op = "availability" /\ last.res = "ok" =>
             DOMAIN last.rows = ActiveCounsellors)
    /\ [][last'.op = "finalize" /\ last'.res = "ok" =>
             SeqToSet(last'.ids) \subseteq ActiveCounsellors]_vars

RowsOf(rows, id) == {p \in rows : p[1] = id}

\* C24: when a step deletes a submission (owner or admin DELETE, duplicate
\* merge) no assignment or suggestion row references its id afterwards, so no
\* availability query can count its days against a counsellor, and the
\* submission rows, assignments and suggestions of every other submission are
\* as before.
C24_DeletionCleansUp ==
    [][\A id \in DOMAIN submissions \ DOMAIN submissions' :
          /\ RowsOf(assignments', id) = {}
          /\ RowsOf(suggestions', id) = {}
          /\ \A other \in DOMAIN submissions \ {id} :
                /\ other \in DOMAIN submissions'
                /\ submissions'[other] = submissions[other]
                /\ RowsOf(assignments', other) = RowsOf(assignments, other)
                /\ RowsOf(suggestions', other) = RowsOf(suggestions, other)]_vars

\* a merge has deleted a submission that had staffing rows while the other
\* submission keeps its own
C24_Witness ==
    /\ last.op = "merge" /\ last.res = "ok"
    /\ last.pre # NoRow /\ last.id \notin DOMAIN submissions
    /\ \E other \in DOMAIN submissions :
          RowsOf(assignments, other) # {} /\ RowsOf(suggestions, other) # {}

\* C25: every stored submission starts on or before the day it ends, and no
\* "Data entry error detected" anomaly (end date before start date) is ever
\* raised for a submission written by create, edit or reschedule.
C25_DatesOrdered ==
    /\ \A s \in DOMAIN submissions :
          sqlDate(submissions[s].start_date) <= sqlDate(submissions[s].end_date)
    /\ ~\E n \in notifications : n.title = "Data entry error detected"

\* Range a ends before range b starts, or starts after range b ends.
Apart(a1, a2, b1, b2) == a2 < b1 \/ a1 > b2

\* C26: for ranges with a1 <= a2 and b1 <= b2 both overlap predicates
\* (datesOverlap and the SQL overlapCondition) give the same answer in either
\* argument order, say that a range overlaps itself, and are false exactly
\* when a2 < b1 or a1 > b2.
C26_OverlapSymmetricReflexive ==
    (last.op = "overlap" /\ last.ids[1] <= last.ids[2] /\ last.ids[3] <= last.ids[4]) =>
        /\ last.js = last.jsSwap /\ last.sql = last.sqlSwap
        /\ last.jsSelf /\ last.sqlSelf
        /\ last.js = ~Apart(last.ids[1], last.ids[2], last.ids[3], last.ids[4])
        /\ last.sql = ~Apart(last.ids[1], last.ids[2], last.ids[3], last.ids[4])

\* two ordered ranges that share exactly one day have been compared
C26_Witness ==
    /\ last.op = "overlap"
    /\ last.ids[1] < last.ids[2] /\ last.ids[2] = last.ids[3] /\ last.ids[3] < last.ids[4]
    /\ last.js /\ last.sql

\* C27: calculateSimilarity(X, Y) and calculateSimilarity(Y, X) return the
\* same score and the same set of factors.
C27_SimilaritySymmetric ==
    last.op = "similarity" =>
        /\ last.xy.score = last.yx.score
        /\ last.xy.factors = last.yx.factors

\* two submissions that differ in organizer id, city spelling and dates have
\* been compared and share some factors, but not all
C27_Witness ==
    /\ last.op = "similarity"
    /\ last.x.content.organizer_id # last.y.content.organizer_id
    /\ last.x.content.city # last.y.content.city
    /\ last.x.start_date # last.y.start_date
    /\ "Similar city" \in last.xy.factors
    /\ "Similar organizer name" \in last.xy.factors
    /\ "Overlapping dates" \notin last.xy.factors

\* The stored submission e has the organizer id and the country of the new
\* submission, dates that overlap its dates, is not cancelled, and the pair
\* has not been dismissed.
Matches(new, e) ==
    /\ e \in DOMAIN submissions /\ e # new
    /\ submissions[e].content.organizer_id = submissions[new].content.organizer_id
    /\ submissions[e].content.country = submissions[new].content.country
    /\ ~Apart(submissions[new].start_date, submissions[new].end_date,
              submissions[e].start_date, submissions[e].end_date)
    /\ submissions[e].event_status # "CANCELLED"
    /\ ~Recorded(new, e)

\* The last request created a submission while detection was enabled with
\* the default threshold.
CreatedWithDetection ==
    /\ last.op = "create" /\ last.res = "ok" /\ last.fault = "none"
    /\ last.id \in DOMAIN submissions
    /\ settings.duplicate_detection_enabled = "true"
    /\ settings.duplicate_threshold = 70

\* The pair scores 0.75 or more, the existing submission is returned, and a
\* duplicate_detected notification for the new submission is stored.
Flagged(new, e) ==
    /\ calculateSimilarity(submissions[new], submissions[e]).score >= 75
    /\ e \in Returned(last.duplicates)
    /\ \E n \in notifications : n.type = "duplicate_detected" /\ n.related = new

\* The stored submissions that the candidates query of the new submission
\* selects: not cancelled, same country or overlapping dates.
CandidatesOf(new) ==
    {s \in DOMAIN submissions \ {new} :
        /\ submissions[s].event_status # "CANCELLED"
        /\ \/ submissions[s].content.country = submissions[new].content.country
           \/ ~Apart(submissions[new].start_date, submissions[new].end_date,
                     submissions[s].start_date, submissions[s].end_date)}

\* C28 as stated: a created submission that matches an existing one in
\* organizer id, country and dates is flagged, whatever else is stored.
C28_MatchFlagged ==
    CreatedWithDetection => \A e \in DOMAIN submissions : Matches(last.id, e) => Flagged(last.id, e)

\* C28 (amended): the match is flagged when the existing submission is among
\* the CandidateLimit most recently created candidates (same country or overlapping
\* dates, not cancelled) of the new submission.
C28_MatchFlaggedWithinLimit ==
    CreatedWithDetection =>
        \A e \in DOMAIN submissions :
            (/\ Matches(last.id, e)
             /\ Cardinality({s \in CandidatesOf(last.id) : s > e}) < CandidateLimit)
                => Flagged(last.id, e)

\* the match is the oldest of exactly as many candidates as the limit admits
C28_Witness ==
    /\ CreatedWithDetection
    /\ \E e \in DOMAIN submissions :
          /\ Matches(last.id, e) /\ Flagged(last.id, e)
          /\ Cardinality({s \in CandidatesOf(last.id) : s > e}) = CandidateLimit - 1

\* The stored notifications that a call with this type, title and related
\* submission repeats: unread and less than one hour old.
SameRecent(type, title, related) ==
    {x \in notifications :
        /\ x.type = type /\ x.title = title /\ x.related = related
        /\ x.status = "unread" /\ now - x.created_at < HourWindow}

\* C29: a call of createNotification for a type other than weekly_report
\* that meets no storage failure leaves the store untouched and returns the
\* id of an existing row when an unread notification of the same type, title
\* and related submission is less than one hour old; otherwise it adds
\* exactly one row, under a fresh id, and returns that id.
C29_SuppressOrInsertOne ==
    [][(last' # last /\ last'.op = "notify" /\ last'.type # "weekly_report"
            /\ ~last'.fails) =>
         IF SameRecent(last'.type, last'.title, last'.related) # {}
         THEN /\ notifications' = notifications
              /\ last'.returned \in
                    {x.id : x \in SameRecent(last'.type, last'.title, last'.related)}
         ELSE \E row \in notifications' :
                 /\ notifications' = notifications \cup {row}
                 /\ row.id = last'.returned
                 /\ row.id \notin {x.id : x \in notifications}
                 /\ row.type = last'.type /\ row.title = last'.title
                 /\ row.related = last'.related /\ row.status = "unread"]_vars

\* a call has inserted a new row next to a notification of the same type,
\* title and related submission that had been read
C29_Witness ==
    /\ last.op = "notify" /\ last.type # "weekly_report"
    /\ \E x \in notifications, y \in notifications :
          /\ x.id # y.id /\ y.id = last.returned
          /\ x.type = y.type /\ x.title = y.title /\ x.related = y.related
          /\ x.status = "read" /\ y.status = "unread"
          /\ x.created_at = y.created_at

\* C30: after a create with detection enabled the number of
\* duplicate_detected notifications for the new submission equals the number
\* of duplicates the detection returned.
C30_OneNotificationPerDuplicate ==
    CreatedWithDetection =>
        Cardinality({n \in notifications :
                        n.type = "duplicate_detected" /\ n.related = last.id})
            = Len(last.duplicates)

\* ---------------------------------------------------------------- workload specification
\* The overload check on a store of confirmed events of the coming days, each
\* counsellor staffed on the first few of them, under a threshold that the
\* store reaches.
MaxLoadSubmissions == 3

LoadThresholds == {1, 2}

\* counsellor c is assigned to the events 1..loads[c]
LoadAssignments(loads) ==
    {<<s, c>> : s \in 1..MaxLoadSubmissions, c \in CounsellorIds} \cap
        {p \in (1..MaxLoadSubmissions) \X CounsellorIds : p[1] <= loads[p[2]]}

LoadInit ==
    /\ counsellors = [c \in CounsellorIds |-> TRUE]
    /\ nextCounsellorId = MaxCounsellors + 1
    /\ submissions = [s \in 1..MaxLoadSubmissions |->
                         Confirmed(NewRow(MaxDay, MaxDay, PuneExpo), 1)]
    /\ nextSubmissionId = MaxLoadSubmissions + 1
    /\ \E loads \in [CounsellorIds -> 0..MaxLoadSubmissions] :
          assignments = LoadAssignments(loads)
    /\ suggestions = {}
    /\ today = 1
    /\ last = NoLast
    /\ notifications = {}
    /\ nextNotificationId = 1
    /\ \E t \in LoadThresholds :
          settings = [DefaultSettings EXCEPT !.counsellor_overload_threshold = t]
    /\ dismissals = {}
    /\ activity_log = <<>>
    /\ now = 0
    /\ triggered = <<>>
    /\ running = <<>>

LoadNext ==
    \/ \E via \in {"scheduler", "trigger"} : RunJob("overload", via, "none")
    \/ \E id \in CounsellorIds, is_active \in BOOLEAN : UpdateCounsellor(id, is_active)
    \/ \E id \in 1..MaxNotifications : MarkRead(Admin, id)
    \/ AdvanceClock

LoadSpec == LoadInit /\ [][LoadNext]_vars

\* the distinct confirmed events of the counsellor that are neither completed
\* nor cancelled and start within the next 30 days
Workload(c) ==
    Cardinality({s \in DOMAIN submissions :
        /\ <<s, c>> \in assignments
        /\ submissions[s].status = "confirmed"
        /\ submissions[s].event_status \notin {"COMPLETED", "CANCELLED"}
        /\ submissions[s].start_date - today \in 0..30})

OverloadThreshold == settings.counsellor_overload_threshold

\* the last operation was a run of the enabled overload check that met no
\* storage failure
OverloadChecked ==
    /\ last.op = "job" /\ last.job = "overload" /\ last.res = "ok"
    /\ last.fault = "none"
    /\ settings.staffing_warning_enabled = "true"

WarningsFor(c) ==
    {n \in notifications : n.type = "staffing_warning" /\ n.meta = c}

\* C31: after a run of the enabled overload check every active counsellor at
\* or above the threshold has a staffing_warning notification in the store,
\* however many counsellors are overloaded in the run, and no counsellor below
\* the threshold or inactive since the start has one.
C31_EveryOverloadedWarned ==
    OverloadChecked =>
        \A c \in DOMAIN counsellors :
            /\ (counsellors[c] /\ Workload(c) >= OverloadThreshold)
                  => WarningsFor(c) # {}
            /\ Workload(c) < OverloadThreshold => WarningsFor(c) = {}

\* C32: an overload notification has priority high exactly when the count
\* exceeds threshold + 2, and medium from the threshold up to threshold + 2.
C32_HighOnlyAboveThresholdPlusTwo ==
    \A n \in notifications :
        n.type = "staffing_warning" =>
            /\ n.priority = "high" <=> Workload(n.meta) > OverloadThreshold + 2
            /\ n.priority = "medium" <=>
                  /\ Workload(n.meta) >= OverloadThreshold
                  /\ Workload(n.meta) <= OverloadThreshold + 2

\* ---------------------------------------------------------------- reminder specification
\* The reminder job on a store of one event that starts within the coming
\* days, in every decision status and event status, staffed or not.
MaxReminderDay == 5

ReminderRows ==
    {[Confirmed(NewRow(d, d, PuneExpo), IF status = "confirmed" THEN 1 ELSE 0)
         EXCEPT !.status = status, !.event_status = event_status] :
        d \in 1..MaxReminderDay, status \in {"pending", "confirmed"},
        event_status \in {"ONGOING", "COMPLETED", "CANCELLED"}}

ReminderInit ==
    /\ counsellors = [c \in CounsellorIds |-> TRUE]
    /\ nextCounsellorId = MaxCounsellors + 1
    /\ \E row \in ReminderRows : submissions = (1 :> row)
    /\ nextSubmissionId = 2
    /\ assignments \in {{}, {<<1, 1>>}}
    /\ suggestions = {}
    /\ today = 1
    /\ last = NoLast
    /\ EngineInit

ReminderNext ==
    \/ \E via \in {"scheduler", "trigger"} : RunJob("reminders", via, "none")
    \/ Tick
    \/ \E id \in 1..MaxNotifications : MarkRead(Admin, id)
    \/ AdvanceClock

ReminderSpec == ReminderInit /\ [][ReminderNext]_vars

\* the schedule {30, 14, 7, 3, 1} of the specification
Milestones == {30, 14, 7, 3, 1}

\* the next smaller milestone, 0 below the smallest
PreviousMilestone(m) ==
    LET below == {k \in Milestones \cup {0} : k < m}
    IN CHOOSE k \in below : \A j \in below : j <= k

\* d days out is at or before a milestone and after the previous one
InMilestoneWindow(d) ==
    \E m \in Milestones : PreviousMilestone(m) < d /\ d <= m

NeedsAttention(s) ==
    /\ submissions[s].event_status \notin {"COMPLETED", "CANCELLED"}
    /\ submissions[s].status = "pending" \/ ~\E p \in assignments : p[1] = s

RemindersChecked ==
    /\ last.op = "job" /\ last.job = "reminders" /\ last.res = "ok"
    /\ last.fault = "none"
    /\ settings.event_reminder_enabled = "true"

RemindersOf(s) == {n \in notifications : n.type = "event_reminder" /\ n.related = s}

\* C33: after a run of the reminder job a non-terminal submission that is
\* pending or unstaffed and starts d days out, with d at or before a milestone
\* and after the previous one, has a reminder; a submission that is confirmed
\* and staffed, or completed or cancelled, has none.
C33_ReminderInMilestoneWindow ==
    RemindersChecked =>
        \A s \in DOMAIN submissions :
            /\ (NeedsAttention(s) /\ InMilestoneWindow(submissions[s].start_date - today))
                  => RemindersOf(s) # {}
            /\ ~NeedsAttention(s) => RemindersOf(s) = {}

\* the contribution of the organizer tests to the score of the pair, from the factors
OrganizerFactors(sim) == sim.factors \cap {"Same organizer", "Similar organizer name"}

BothCarryIds(x, y) == x.content.organizer_id # 0 /\ y.content.organizer_id # 0

\* C34: at most one of organizer identity and organizer name contributes to a
\* pair, and the name contributes only when one of the two submissions has no
\* organizer id: with two different ids there is no organizer contribution.
C34_NameFallbackOnlyWithoutIds ==
    last.op = "similarity" =>
        /\ Cardinality(OrganizerFactors(last.xy)) <= 1
        /\ "Similar organizer name" \in last.xy.factors => ~BothCarryIds(last.x, last.y)

\* ---------------------------------------------------------------- read failure specification
\* The detection jobs on a store that gives the first rule of the anomaly
\* check and the first candidate of the duplicate check something to report,
\* with a storage failure at the first or at a later read of the run.
ReadFailures == {"query"} \cup LaterReads

ReadInit ==
    /\ counsellors = [c \in CounsellorIds |-> TRUE]
    /\ nextCounsellorId = MaxCounsellors + 1
    /\ submissions = (1 :> NewRow(MaxDay, MaxDay, PuneExpo))
                        @@ (2 :> Confirmed(NewRow(MaxDay, MaxDay, PuneExpo), 1))
                        @@ (3 :> NewRow(MaxDay, MaxDay, PuneExpo))
    /\ nextSubmissionId = 4
    /\ assignments = {<<2, c>> : c \in CounsellorIds}
    /\ suggestions = {}
    /\ today = 1
    /\ last = NoLast
    /\ notifications = {}
    /\ nextNotificationId = 1
    /\ settings = DefaultSettings
    /\ dismissals = {}
    /\ activity_log = BulkLog
    /\ now = 0
    /\ triggered = <<>>
    /\ running = <<>>

ReadNext ==
    \/ \E via \in {"scheduler", "trigger"}, fault \in {"none", "query", "rule2", "rule3"} :
          RunJob("anomalies", via, fault)
    \/ \E id \in 1..3, fault \in {"none", "query", "lookup2"} : DetectDuplicates(id, fault)
    \/ \E id \in 1..MaxNotifications : MarkRead(Admin, id)
    \/ \E id \in 1..MaxNotifications : DeleteNotification(Admin, id)
    \/ AdvanceClock

ReadSpec == ReadInit /\ [][ReadNext]_vars

\* C35: a run of a detection job in which a query fails, at the first read or
\* at a later one, leaves the notification store as it was before the run.
C35_ReadFailureLeavesStore ==
    [][(/\ last'.op = "job" /\ last'.fault \in ReadFailures
        /\ last' # last \/ notifications' # notifications)
          => notifications' = notifications]_vars

\* ---------------------------------------------------------------- reference specification
\* Counsellor accounts that are switched on and off and deleted while two
\* requests are created with suggestions, edited, finalized and deleted.
MaxRefSubmissions == 2

RefInit ==
    /\ counsellors = [c \in CounsellorIds |-> c = 1]
    /\ nextCounsellorId = MaxCounsellors + 1
    /\ submissions = << >>
    /\ nextSubmissionId = 1
    /\ assignments = {}
    /\ suggestions = {}
    /\ today = 1
    /\ last = NoLast
    /\ notifications = {}
    /\ nextNotificationId = 1
    /\ settings = [DefaultSettings EXCEPT !.duplicate_detection_enabled = "false"]
    /\ dismissals = {}
    /\ activity_log = <<>>
    /\ now = 0
    /\ triggered = <<>>
    /\ running = <<>>

RefNext ==
    \/ \E c \in CounsellorIds, a \in BOOLEAN : UpdateCounsellor(c, a)
    \/ DeleteCounsellor(MaxCounsellors)
    \/ \E ids \in SuggestedSeqs :
          /\ nextSubmissionId <= MaxRefSubmissions
          /\ CreateSubmission(1, MaxDay, MaxDay, PuneExpo, ids, "none")
    \/ \E id \in 1..MaxRefSubmissions, ids \in SuggestedSeqs :
          EditSubmission(1, id, MaxDay, MaxDay, PuneExpo, ids)
    \/ \E id \in 1..MaxRefSubmissions, ids \in IdSeqs : Finalize(id, ids, "none", "none")
    \/ \E id \in 1..MaxRefSubmissions : DeleteSubmission(1, id)

RefSpec == RefInit /\ [][RefNext]_vars

\* a counsellor edit has just succeeded
Edited == last.op = "edit" /\ last.res = "ok"

\* C36: a successful counsellor edit leaves the assignments of every
\* submission, the edited one included, exactly as they were; the edited
\* submission becomes pending.
C36_EditKeepsAssignments ==
    [][(/\ last'.op = "edit" /\ last'.res = "ok"
        /\ last' # last \/ assignments' # assignments)
          => /\ assignments' = assignments
             /\ submissions'[last'.id].status = "pending"
             /\ \A s \in DOMAIN submissions \ {last'.id} : submissions'[s] = submissions[s]]_vars

\* a confirmed and staffed submission has been edited while another
\* submission is staffed too
C36_Witness ==
    /\ Edited
    /\ last.pre.status = "confirmed"
    /\ last.preAsg # {}
    /\ submissions[last.id].status = "pending"
    /\ \E p \in assignments : p[1] # last.id

\* C38: every assignment and every suggestion references a stored
\* submission and a stored counsellor, and the counsellor of a row was active
\* when the row was written: after a finalize those of its assignments, after
\* a create or an edit those of its suggestions.
C38_RowsReferenceActiveAtCreation ==
    /\ \A p \in assignments \cup suggestions :
          p[1] \in DOMAIN submissions /\ p[2] \in DOMAIN counsellors
    /\ (last.op = "finalize" /\ last.res = "ok")
          => \A p \in assignments : p[1] = last.id => counsellors[p[2]]
    /\ (last.op \in {"create", "edit"} /\ last.res = "ok")
          => \A p \in suggestions : p[1] = last.id => counsellors[p[2]]

\* ---------------------------------------------------------------- query specification
\* The three availability listings on a store of two submissions of
\* counsellor 1 in every staffing, the second one confirmed.
QueryStatuses == {"pending", "confirmed"}

QueryInit ==
    /\ counsellors = [c \in CounsellorIds |-> TRUE]
    /\ nextCounsellorId = MaxCounsellors + 1
    /\ \E d1 \in ValidDatePairs, d2 \in ValidDatePairs, status \in QueryStatuses :
          submissions = (1 :> [NewRow(d1[1], d1[2], PuneExpo) EXCEPT !.status = status])
                           @@ (2 :> Confirmed(NewRow(d2[1], d2[2], PuneExpo), 1))
    /\ nextSubmissionId = 3
    /\ assignments \in SUBSET ((1..2) \X CounsellorIds)
    /\ suggestions = {}
    /\ today = 1
    /\ last = NoLast
    /\ notifications = {}
    /\ nextNotificationId = 1
    /\ settings = [DefaultSettings EXCEPT !.duplicate_detection_enabled = "false"]
    /\ dismissals = {}
    /\ activity_log = <<>>
    /\ now = 0
    /\ triggered = <<>>
    /\ running = <<>>

QueryNext ==
    \/ \E w \in Windows, S \in 0..2, zone \in Zones : Availability(w[1], w[2], S, zone)
    \/ \E user \in {Admin, 1}, w \in Windows, S \in 0..2 :
          AvailabilityPublic(user, w[1], w[2], S)
    \/ \E w \in Windows : StaffAvailability(w[1], w[2])

QuerySpec == QueryInit /\ [][QueryNext]_vars

\* the confirmed assignments of counsellor c that overlap the window, on the
\* store in which submission S has no assignments
ConflictsWithout(S, c, start, end) ==
    {s \in DOMAIN submissions :
        /\ <<s, c>> \in {p \in assignments : p[1] # S}
        /\ submissions[s].status = "confirmed"
        /\ ~Apart(submissions[s].start_date, submissions[s].end_date, start, end)}

\* an answered admin availability query that excludes a submission
AnsweredExcluding ==
    /\ last.op = "availability" /\ last.res = "ok" /\ last.id # 0

\* C37: an availability query with exclude_submission_id = S answers, for
\* every counsellor, what the same query answers on the store in which S has no
\* assignments; S is in no conflicts list, and a counsellor whose only
\* confirmed assignment in the window is S is available.
C37_ExcludedSubmissionIsIgnored ==
    AnsweredExcluding =>
        \A c \in DOMAIN last.rows :
            /\ last.rows[c] = ClassifyConflicts(ConflictsWithout(last.id, c, last.ids[1], last.ids[2]),
                                                last.ids[1], last.ids[2], last.zone)
            /\ last.id \notin last.rows[c].conflicts
            /\ ConflictsWithout(last.id, c, last.ids[1], last.ids[2]) = {}
                  => last.rows[c].status = "available"

\* the excluded submission is confirmed, overlaps the window and is the only
\* assignment of a counsellor, who is listed as available; another counsellor
\* is busy with the other submission
C37_Witness ==
    /\ AnsweredExcluding
    /\ last.ids[1] <= last.ids[2]
    /\ \E c \in DOMAIN last.rows :
          /\ <<last.id, c>> \in assignments
          /\ submissions[last.id].status = "confirmed"
          /\ ~Apart(submissions[last.id].start_date, submissions[last.id].end_date,
                    last.ids[1], last.ids[2])
          /\ last.rows[c].status = "available"
    /\ \E c \in DOMAIN last.rows : last.rows[c].status = "busy"

\* C39: a counsellor-facing listing reports available = true for a counsellor
\* exactly when the admin calculator, on the same store, window (start <= end)
\* and exclusion, classifies the counsellor as available, in whichever time
\* zone the server runs; in the admin answer the status is available exactly
\* when the conflicts list is empty.
C39_PublicAgreesWithAdmin ==
    /\ (/\ last.op \in {"availability-public", "staff-availability"}
        /\ last.res = "ok" /\ last.ids[1] <= last.ids[2])
          => \A c \in DOMAIN last.rows, zone \in Zones :
                last.rows[c].available
                   <=> AvailabilityRow(c, last.ids[1], last.ids[2], last.id, zone).status
                          = "available"
    /\ (last.op = "availability" /\ last.res = "ok" /\ last.ids[1] <= last.ids[2])
          => \A c \in DOMAIN last.rows :
                last.rows[c].status = "available" <=> last.rows[c].conflicts = {}

\* the two submissions of a duplicate_detected notification
PairOf(n) == {n.meta, n.related}

\* C40: a merge on a duplicate_detected notification that keeps one
\* submission of its pair deletes exactly the other one, leaves the kept
\* submission and its assignments unchanged, and leaves the notification in
\* the store with status actioned, whichever of the two is kept.
C40_MergeKeepsOneAndNotification ==
    [][(/\ last'.op = "merge" /\ last'.res = "ok" /\ last' # last
        /\ \E n \in notifications :
              n.id = last'.notification /\ PairOf(n) \subseteq DOMAIN submissions
                 /\ last'.ids[1] \in PairOf(n))
          => /\ DOMAIN submissions' = DOMAIN submissions \ {last'.id}
             /\ last'.id # last'.ids[1]
             /\ submissions'[last'.ids[1]] = submissions[last'.ids[1]]
             /\ RowsOf(assignments', last'.ids[1]) = RowsOf(assignments, last'.ids[1])
             /\ \E n \in notifications' :
                   n.id = last'.notification /\ n.status = "actioned"]_vars

====
